---- MODULE Spec2Model ----
(***************************************************************************)
(* Model of the prismarine-viewer meshing pipeline: the WorldRenderer      *)
(* coordinator (viewer/lib/worldrenderer.js), its mesh-generation workers  *)
(* (viewer/lib/worker.js), each worker's World replica                     *)
(* (viewer/lib/world.js) and the asynchronous message channels between     *)
(* them; with the shared atlas texture, frustum culling, and the LRUCache  *)
(* (viewer/lib/lruCache.js) and the World taken on their own.              *)
(***************************************************************************)
EXTENDS Integers, Sequences, FiniteSets, TLC

(***************************************************************************)
(* Bounds of the model and program constants.                              *)
(***************************************************************************)
\* number of worker units handed to the WorldRenderer constructor
NumWorkers == 2
\* number of vertical sections of a column (WORLD_HEIGHT / SECTION_HEIGHT)
MaxLevels == 1
\* number of coordinator API calls explored in one behaviour
MaxOps == 3
\* number of frames (Viewer.update calls) that end in one behaviour
MaxFrames == 1
\* number of waitForChunksToRender() calls explored in one behaviour
MaxWaiters == 2
\* largest block-state id written by setBlockStateId
MaxStateId == 1
\* largest version number handed to setVersion
MaxVersion == 1
\* largest version number handed to setVersion where loads of two versions race
MaxLoadVersion == 2
MaxObjects == 3
\* largest number of undelivered messages of a worker at which it still ticks
MaxOutbox == 3
\* the environment makes an API call only while no worker has more than this
\* many unhandled messages
MaxInbox == 0
\* largest capacity, key and value of the LRUCache explored on its own
MaxCacheSize == 2
MaxCacheKey == 3
MaxCacheValue == 2
\* capacity of the block cache of the World explored on its own, and the
\* largest block-state id written to it
MaxBlockCache == 1
MaxUnitStateId == 2
\* largest absolute value of the coordinates the origin and offset of which
\* are compared
MaxCoord == 33
\* largest windowMs and maxRequests of the rateLimit middleware explored on
\* its own, and the time up to which its clock runs
MaxWindow == 2
MaxRate == 2
MaxTime == 6

SECTION_HEIGHT == 16
WORLD_HEIGHT == MaxLevels * SECTION_HEIGHT

\* undefined / null of a version or a block-state table
None == 0

Workers == 0 .. (NumWorkers - 1)
Versions == 1 .. MaxVersion
AllVersions == 1 .. MaxLoadVersion
StateIds == 1 .. MaxStateId

\* the columns the environment loads and unloads
Columns == {<<-16, 0>>, <<0, 0>>}
\* two columns whose sections are dispatched to the same worker
TickColumns == {<<-16, 0>>, <<16, 0>>}
\* the block positions the environment mutates
Positions == {<<-1, 1, 1>>, <<1, 1, 1>>}
\* block positions on the faces of their sections, and one inside
MarkPositions == {<<-1, 5, 0>>, <<-16, 0, 15>>, <<15, 15, -1>>, <<1, 5, 1>>}
BlockPositions == Positions \cup MarkPositions
\* the y origins addColumn and removeColumn loop over
LevelYs == {l * SECTION_HEIGHT : l \in 0 .. (MaxLevels - 1)}

(***************************************************************************)
(* Pure helpers.                                                           *)
(***************************************************************************)
\* JavaScript's % : the remainder has the sign of the dividend
JsRem(x, n) == IF x >= 0 THEN x % n ELSE -((-x) % n)

modMutant(x, n) == JsRem(x, n)
mod(x, n) == JsRem(JsRem(x, n) + n, n)

\* Math.floor(c / 16)
\* division that truncates towards zero
FloorDiv16Mutant(c) == IF c >= 0 THEN c \div 16 ELSE -((-c) \div 16)
FloorDiv16(c) == c \div 16

\* Math.floor(c / 16) * 16
Floor16(c) == FloorDiv16(c) * 16

\* the section key `${x},${y},${z}` of a position, as a tuple of its numbers
SectionKeyOf(pos) == <<Floor16(pos[1]), Floor16(pos[2]), Floor16(pos[3])>>

\* chunkCoords[0] + ',' + chunkCoords[2] of a section key
ColumnOfKey(key) == <<key[1], key[3]>>

columnKey(x, z) == <<x, z>>

\* pos.offset(dx, dy, dz)
Offset(pos, dx, dy, dz) == <<pos[1] + dx, pos[2] + dy, pos[3] + dz>>

\* c & 15 on a two's complement integer
And15(c) == c % 16

\* posInChunk: x and z masked to their low four bits, y kept
PosInChunk(pos) == <<And15(pos[1]), pos[2], And15(pos[3])>>

\* the worker a section is dispatched to
Hash(pos, n) == mod(FloorDiv16(pos[1]) + FloorDiv16(pos[2]) + FloorDiv16(pos[3]), n)

RECURSIVE SeqToSet(_)
SeqToSet(s) == IF s = <<>> THEN {} ELSE {Head(s)} \cup SeqToSet(Tail(s))

RECURSIVE RemoveFromSeq(_, _)
RemoveFromSeq(s, e) ==
  IF s = <<>> THEN <<>>
  ELSE IF Head(s) = e THEN RemoveFromSeq(Tail(s), e)
       ELSE <<Head(s)>> \o RemoveFromSeq(Tail(s), e)

\* the positions of the environment that lie in a column / in a section
PositionsInColumn(col) == {p \in BlockPositions : ColumnOfKey(SectionKeyOf(p)) = col}
PositionsInSection(key) == {p \in BlockPositions : SectionKeyOf(p) = key}

\* the chunk payloads the environment sends for a column: every section
\* present, or no section present (an empty column); all blocks are air (0)
\* a chunk addresses its blocks by their offsets from the column's origin
InChunk(col, p) == <<p[1] - col[1], p[2], p[3] - col[2]>>
ChunkPositions(col) == {InChunk(col, p) : p \in PositionsInColumn(col)}

ChunkPayloads(col) ==
  {[sections |-> secs, blocks |-> [q \in ChunkPositions(col) |-> 0]] :
     secs \in {0 .. (MaxLevels - 1), {}}}

(***************************************************************************)
(* Functions with a changing domain (JavaScript objects used as maps).     *)
(***************************************************************************)
MapPut(f, k, v) == [x \in (DOMAIN f) \cup {k} |-> IF x = k THEN v ELSE f[x]]
MapDel(f, k) == [x \in (DOMAIN f) \ {k} |-> f[x]]
MapDelAll(f, ks) == [x \in (DOMAIN f) \ ks |-> f[x]]
EmptyMap == <<>>

\* getBlock's null, as the block descriptor it stands in for
NoBlock == [found |-> FALSE, stateId |-> None, position |-> <<>>]

\* world = null, and new World(version); columns is World.columns
NullWorld == [exists |-> FALSE, columns |-> EmptyMap]
NewWorld == [exists |-> TRUE, columns |-> EmptyMap]

(***************************************************************************)
(* State.                                                                  *)
(***************************************************************************)
VARIABLES
  \* WorldRenderer fields
  active, workersActive, workers, version, sectionMeshs, loadedChunks,
  sectionsOutstanding, pendingDirtySections,
  \* renderUpdateEmitter's 'update' listeners, and for every
  \* waitForChunksToRender() call the number of times its promise resolved
  listeners, resolved, nextWaiter,
  \* the scene's section meshes, the meshes dispose3 was called on, the
  \* number of meshes constructed so far
  scene, disposedMeshes, nextMeshId,
  \* the callers that called dispose() on the shared material
  materialDisposedBy,
  \* block-state loads started by updateTexturesData and not yet completed
  blockStateLoads,
  \* per worker: world, blocksStates, dirtySections, terminated
  wWorld, wBlocksStates, dirtySections, terminated,
  \* messages in flight: coordinator -> worker, worker -> coordinator
  toWorker, fromWorker,
  \* history: API calls made, frames ended, dirty(value=true) messages posted
  \* per key in the current frame, the environment's own world, per worker
  \* the sections whose replica changed since the worker last generated
  \* them, and the kinds of event that have happened so far
  opCount, frameCount, frameDirty, worldTruth, ungenerated, seen,
  \* history: the columns addColumn was called for since construction
  everLoaded,
  \* the atlas texture: WorldRenderer.currentTexture, material.map, the
  \* textures dispose() was called on, the loadTexture calls not yet
  \* completed, the number of textures loaded so far, and the operations of
  \* the most recent loadTexture callback in program order
  currentTexture, materialMap, disposedTextures, textureLoads, nextTextureId,
  texLog,
  \* per version the loadTexture calls not yet completed, and for every
  \* texture loaded so far the version it was requested for
  texturePending, textureOf,
  \* frustum culling: WorldRenderer.frustumCullingEnabled, the meshes whose
  \* visible flag is false, visibleMeshCount, totalMeshCount
  frustumCullingEnabled, hiddenMeshes, visibleMeshCount, totalMeshCount,
  \* an LRUCache on its own: maxSize, the Map's entries in insertion order,
  \* the keys in the order they were last touched, the last operation
  maxSize, cache, touchOrder, cacheOp,
  \* a World on its own: columns, blockCache, the last operation, and the
  \* block state last written at every position of a loaded column
  uWorld, blockCache, worldOp, lastWritten,
  \* a rateLimit middleware on its own: its options, Date.now(), the requests
  \* Map, the last response, and per client the start of its current window
  \* and the number of its requests passed to next() in that window
  windowMs, maxRequests, now, requests, rateOp, winStart, winPassed,
  \* validateUrl and isPrivateIP on their own: the arguments and the result
  urlIn, urlOut,
  \* a block descriptor a caller of World.getBlock kept: the cache key of the
  \* object, whether it still is the cached object, and its position when
  \* it was returned and now
  held,
  \* dispose3 and clearScene on their own: the THREE.Object3D objects (parent,
  \* children, geometry, material, whether the class has a dispose method),
  \* the materials whose map is set, the activations of dispose3 and clearScene
  \* in progress, the call made, and the geometries, materials, textures and
  \* objects dispose() was called on
  objects, texturedMaterials, callStack, d3Call, disposeCalls

coordVars == <<active, workersActive, workers, version, sectionMeshs,
               loadedChunks, sectionsOutstanding, pendingDirtySections>>
waitVars == <<listeners, resolved, nextWaiter>>
meshVars == <<scene, disposedMeshes, nextMeshId, materialDisposedBy>>
workerVars == <<wWorld, wBlocksStates, dirtySections, terminated>>
chanVars == <<toWorker, fromWorker>>
histVars == <<opCount, frameCount, frameDirty, worldTruth, ungenerated, seen>>
texRest == <<currentTexture, textureLoads, nextTextureId, texLog, texturePending,
             textureOf>>
texVars == <<currentTexture, materialMap, disposedTextures, textureLoads,
             nextTextureId, texLog, texturePending, textureOf>>
cullVars == <<frustumCullingEnabled, hiddenMeshes, visibleMeshCount, totalMeshCount>>
cacheVars == <<maxSize, cache, touchOrder, cacheOp>>
worldVars == <<uWorld, blockCache, worldOp, lastWritten>>
rateVars == <<windowMs, maxRequests, now, requests, rateOp, winStart, winPassed>>
urlVars == <<urlIn, urlOut>>
d3Vars == <<objects, texturedMaterials, callStack, d3Call, disposeCalls>>
moreVars == <<rateVars, urlVars, held, d3Vars>>
unitVars == <<cullVars, cacheVars, worldVars, moreVars>>
extVars == <<everLoaded, texVars, unitVars>>
vars == <<coordVars, waitVars, meshVars, blockStateLoads, workerVars,
          chanVars, histVars, extVars>>
\* the pipeline, the LRUCache and the World: what the middleware and the
\* validator never touch
baseVars == <<coordVars, waitVars, meshVars, blockStateLoads, workerVars,
              chanVars, histVars, everLoaded, texVars, cullVars, cacheVars,
              worldVars>>
exceptRate == <<baseVars, urlVars, held, d3Vars>>
exceptUrl == <<baseVars, rateVars, held, d3Vars>>
exceptD3 == <<baseVars, rateVars, urlVars, held>>

\* every section key a message or a mark of this model can carry
KeyXs == {c[1] + d : c \in Columns \cup TickColumns, d \in {-16, 0, 16}}
KeyZs == {c[2] + d : c \in Columns \cup TickColumns, d \in {-16, 0, 16}}
KeyYs == {l * SECTION_HEIGHT : l \in -1 .. MaxLevels}
AllKeys == {<<x, y, z>> : x \in KeyXs, y \in KeyYs, z \in KeyZs}

\* the section keys of a column that addColumn and removeColumn loop over
SectionsOfColumn(col) == {<<col[1], y, col[2]>> : y \in LevelYs}

\* new WorldRenderer(scene, numWorkers)
RendererInit ==
  /\ active = FALSE
  /\ workersActive = TRUE
  /\ workers = [i \in 1 .. NumWorkers |-> i - 1]
  /\ version = None
  /\ sectionMeshs = <<>>
  /\ loadedChunks = {}
  /\ sectionsOutstanding = {}
  /\ pendingDirtySections = {}
  /\ listeners = <<>>
  /\ resolved = <<>>
  /\ nextWaiter = 1
  /\ scene = {}
  /\ disposedMeshes = {}
  /\ materialDisposedBy = {}
  /\ nextMeshId = 1
  /\ blockStateLoads = [v \in AllVersions |-> 0]
  /\ wWorld = [w \in Workers |-> NullWorld]
  /\ wBlocksStates = [w \in Workers |-> None]
  /\ dirtySections = [w \in Workers |-> <<>>]
  /\ terminated = [w \in Workers |-> FALSE]
  /\ toWorker = [w \in Workers |-> <<>>]
  /\ fromWorker = [w \in Workers |-> <<>>]
  /\ opCount = 0
  /\ frameCount = 0
  /\ frameDirty = [k \in AllKeys |-> 0]
  /\ worldTruth = <<>>
  /\ ungenerated = [w \in Workers |-> {}]
  /\ seen = {}
  /\ everLoaded = {}
  /\ currentTexture = None
  /\ materialMap = None
  /\ disposedTextures = {}
  /\ textureLoads = 0
  /\ nextTextureId = 1
  /\ texturePending = [v \in AllVersions |-> 0]
  /\ textureOf = <<>>
  /\ texLog = <<>>
  /\ frustumCullingEnabled = TRUE
  /\ hiddenMeshes = {}
  /\ visibleMeshCount = 0
  /\ totalMeshCount = 0

\* new LRUCache(n)
NewCache(n) ==
  /\ maxSize = n
  /\ cache = <<>>
  /\ touchOrder = <<>>
  /\ cacheOp = [op |-> "new", key |-> None, value |-> None, found |-> FALSE,
                evicted |-> None]

\* new World(version)
NewUnitWorld ==
  /\ uWorld = NewWorld
  /\ blockCache = <<>>
  /\ worldOp = [op |-> "new", pos |-> <<>>, block |-> NoBlock, ok |-> TRUE,
                calls |-> <<>>]
  /\ lastWritten = EmptyMap

\* the client addresses that send requests
IPs == {"a", "b"}

\* rateLimit({ windowMs: w, maxRequests: m }), created at time 0
NewRateLimit(w, m) ==
  /\ windowMs = w
  /\ maxRequests = m
  /\ now = 0
  /\ requests = [ip \in IPs |-> [has |-> FALSE, count |-> 0, resetTime |-> 0]]
  /\ rateOp = [op |-> "new", ip |-> "", status |-> 0, error |-> "", passed |-> FALSE]
  /\ winStart = [ip \in IPs |-> -1]
  /\ winPassed = [ip \in IPs |-> 0]

\* the URLs validateUrl is called with: a well-formed URL is given by its
\* protocol, its host as written and whether it carries credentials; a
\* host is the sequence of its labels and separators
UrlHosts ==
  {<<"example", ".", "com">>, <<"sub", ".", "example", ".", "com">>,
   <<"notexample", ".", "com">>, <<"evil", ".", "com">>, <<"localhost">>,
   <<"LOCALHOST">>, <<"0", ".", "0", ".", "0", ".", "0">>,
   <<"2130706433">>, <<"127", ".", "0", ".", "0", ".", "1">>,
   <<"10", ".", "0", ".", "0", ".", "1">>,
   <<"172", ".", "15", ".", "0", ".", "1">>, <<"172", ".", "16", ".", "0", ".", "1">>,
   <<"172", ".", "31", ".", "0", ".", "1">>, <<"172", ".", "32", ".", "0", ".", "1">>,
   <<"192", ".", "168", ".", "1", ".", "1">>, <<"169", ".", "254", ".", "1", ".", "1">>,
   <<"8", ".", "8", ".", "8", ".", "8">>,
   <<"[", ":", ":", "1", "]">>, <<"[", "fc00", ":", ":", "1", "]">>,
   <<"[", "fe80", ":", ":", "1", "]">>}
UrlForms == {"url", "empty", "malformed"}
UrlProtocols == {"http:", "https:", "ftp:"}
\* options.allowedProtocols, options.blockedDomains and, for a URL of host h,
\* options.allowedDomains
AllowedProtocolOptions == {{"http:", "https:"}, {"https:"}}
BlockedDomainOptions == {{}, {<<"EVIL", ".", "com">>}, {<<"example", ".", "com">>}}
AllowedDomainOptions(h) == {{}, {<<"example", ".", "com">>}, {h}}
UrlInputs ==
  UNION {{[form |-> f, protocol |-> p, host |-> h, credentials |-> c,
           allowedProtocols |-> ap, allowedDomains |-> ad, blockedDomains |-> bd] :
            f \in UrlForms, p \in UrlProtocols, c \in BOOLEAN,
            ap \in AllowedProtocolOptions, bd \in BlockedDomainOptions,
            ad \in AllowedDomainOptions(h)} : h \in UrlHosts}

\* no call of the validator has been made
NoResult == [op |-> "none", valid |-> FALSE, error |-> "", private |-> FALSE]
NoUrlCall ==
  /\ urlIn = [form |-> "url", protocol |-> "http:", host |-> <<"example", ".", "com">>,
              credentials |-> FALSE, allowedProtocols |-> {"http:", "https:"},
              allowedDomains |-> {}, blockedDomains |-> {}]
  /\ urlOut = NoResult

\* no descriptor has been kept
NotHeld == [has |-> FALSE, key |-> None, shared |-> FALSE, returned |-> <<>>,
            position |-> <<>>]

\* the objects dispose3 can be given, null is None
Objects == 1 .. MaxObjects
\* object n has geometry n and materials 2n-1 (the one that has a map) and 2n
NoMaterial == [kind |-> "none", ids |-> <<>>]
MaterialOf(n, kind) ==
  CASE kind = "none" -> NoMaterial
    [] kind = "one" -> [kind |-> "one", ids |-> <<2 * n - 1>>]
    [] kind = "array" -> [kind |-> "array", ids |-> <<2 * n - 1, 2 * n>>]
\* THREE.Group, THREE.Mesh, a THREE.Mesh with an array of materials,
\* THREE.InstancedMesh and THREE.Light (the last two have a dispose method)
ObjectKinds ==
  {[geometry |-> FALSE, material |-> "none", dispose |-> FALSE],
   [geometry |-> TRUE, material |-> "one", dispose |-> FALSE],
   [geometry |-> TRUE, material |-> "array", dispose |-> FALSE],
   [geometry |-> TRUE, material |-> "one", dispose |-> TRUE],
   [geometry |-> FALSE, material |-> "none", dispose |-> TRUE]}
\* the finite object trees: the parent of an object was constructed before it
ParentMaps == {f \in [Objects -> 0 .. MaxObjects] : \A n \in Objects : f[n] < n}
RECURSIVE ChildrenOf(_, _, _)
ChildrenOf(f, p, n) ==
  IF n > MaxObjects THEN <<>>
  ELSE (IF f[n] = p THEN <<n>> ELSE <<>>) \o ChildrenOf(f, p, n + 1)
NewObjects(f, k) ==
  [n \in Objects |->
     [parent |-> f[n], children |-> ChildrenOf(f, n, 1),
      geometry |-> IF k[n].geometry THEN n ELSE None,
      material |-> MaterialOf(n, k[n].material), dispose |-> k[n].dispose]]
\* the options of dispose3; the defaults
D3Options == [disposeTextures : BOOLEAN, recursive : BOOLEAN]
DefaultOptions == [disposeTextures |-> TRUE, recursive |-> TRUE]
NoDisposeCalls == [geometries |-> {}, materials |-> {}, textures |-> {}, objects |-> {}]
\* the objects f, k before any call of dispose3 or clearScene
NewTree(f, k) ==
  /\ objects = NewObjects(f, k)
  /\ texturedMaterials = {2 * n - 1 : n \in {o \in Objects : k[o].material # "none"}}
  /\ callStack = <<>>
  /\ d3Call = [op |-> "none", obj |-> None, options |-> DefaultOptions,
               before |-> NewObjects(f, k)]
  /\ disposeCalls = NoDisposeCalls
\* objects without parent, geometry and material
Groups ==
  NewTree([n \in Objects |-> 0],
          [n \in Objects |-> [geometry |-> FALSE, material |-> "none", dispose |-> FALSE]])

\* the objects taken on their own, as constructed
MoreInit == NewRateLimit(MaxWindow, 1) /\ NoUrlCall /\ held = NotHeld /\ Groups

Init == RendererInit /\ NewCache(1) /\ NewUnitWorld /\ MoreInit

(***************************************************************************)
(* Coordinator: posting messages.                                          *)
(***************************************************************************)
\* for (const worker of this.workers) worker.postMessage(msg)
RECURSIVE Broadcast(_, _, _)
Broadcast(tw, ws, msg) ==
  IF ws = <<>> THEN tw
  ELSE Broadcast([tw EXCEPT ![Head(ws)] = Append(@, msg)], Tail(ws), msg)

\* if (value && this.pendingDirtySections.has(key)) return
DeduplicatedMutant(pending, key, value) == FALSE
Deduplicated(pending, key, value) == value /\ key \in pending

\* the else branch of setSectionDirty: this.sectionsOutstanding.delete(key)
UnmarkOutstandingMutant(out, key) == out
UnmarkOutstanding(out, key) == out \ {key}

\* if (!this.active || this.workers.length === 0) return
InactiveMutant == Len(workers) = 0
Inactive == ~active \/ Len(workers) = 0

\* WorldRenderer.setSectionDirty applied to the fields it reads and writes,
\* d = [toWorker, outstanding, pending, frameDirty, seen]
SetSectionDirty(d, pos, value) ==
  IF Inactive THEN d
  ELSE
    LET key == SectionKeyOf(pos)
    IN IF Deduplicated(d.pending, key, value)
       THEN [d EXCEPT !.seen = @ \cup {"dedup"}]
       ELSE
         LET hash == Hash(pos, Len(workers))
             w == workers[hash + 1]
             msg == [type |-> "dirty", pos |-> pos, value |-> value]
         IN IF value
            THEN [toWorker |-> [d.toWorker EXCEPT ![w] = Append(@, msg)],
                  outstanding |-> d.outstanding \cup {key},
                  pending |-> d.pending \cup {key},
                  frameDirty |-> [d.frameDirty EXCEPT ![key] = @ + 1],
                  seen |-> d.seen, events |-> d.events]
            ELSE [toWorker |-> [d.toWorker EXCEPT ![w] = Append(@, msg)],
                  outstanding |-> UnmarkOutstanding(d.outstanding, key),
                  pending |-> d.pending \ {key},
                  frameDirty |-> [d.frameDirty EXCEPT ![key] = 0],
                  seen |-> d.seen, events |-> d.events]

\* a run of setSectionDirty calls, in order; marks is a sequence of <<pos, value>>
RECURSIVE SetSectionsDirty(_, _)
SetSectionsDirty(d, marks) ==
  IF marks = <<>> THEN d
  ELSE SetSectionsDirty(SetSectionDirty(d, Head(marks)[1], Head(marks)[2]), Tail(marks))

DirtyState(tw, events) ==
  [toWorker |-> tw, outstanding |-> sectionsOutstanding,
   pending |-> pendingDirtySections, frameDirty |-> frameDirty, seen |-> seen,
   events |-> events]

ApplyDirtyState(d) ==
  /\ toWorker' = d.toWorker
  /\ sectionsOutstanding' = d.outstanding
  /\ pendingDirtySections' = d.pending
  /\ frameDirty' = d.frameDirty
  /\ seen' = d.seen \cup d.events

(***************************************************************************)
(* Coordinator: meshes.                                                    *)
(***************************************************************************)
\* this.scene.remove(mesh)
SceneRemoveMutant(sc, meshes) == sc
SceneRemove(sc, meshes) == sc \ {m.id : m \in meshes}

\* dispose3(mesh, { disposeTextures: false })
Dispose3(disp, meshes) == disp \cup {m.id : m \in meshes}

\* dispose3 on section meshes, whose material is the shared this.material:
\* with disposeTextures false the else branch calls object.material.dispose()
Dispose3Material(by, meshes) == IF meshes # {} THEN by \cup {"dispose3"} ELSE by

\* the disposeTextures option the WorldRenderer passes to dispose3
DisposeTexturesOptionMutant == TRUE
DisposeTexturesOption == FALSE

\* dispose3 on section meshes: with disposeTextures true disposeMaterial
\* disposes the shared material's map and sets material.map to null
Dispose3Textures(disposed, map, meshes) ==
  IF meshes # {} /\ DisposeTexturesOption /\ map # None
  THEN disposed \cup {map} ELSE disposed
Dispose3Map(map, meshes) ==
  IF meshes # {} /\ DisposeTexturesOption THEN None ELSE map

\* disposeTexture(texture)
DisposeTexture(disposed, texture) ==
  IF texture # None THEN disposed \cup {texture} ELSE disposed

\* the meshes sectionMeshs holds at the given keys
MeshesAt(keys) == {sectionMeshs[k] : k \in keys \cap DOMAIN sectionMeshs}

\* if (!this.loadedChunks[chunkCoords[0] + ',' + chunkCoords[2]]) return
ColumnLoadedMutant(key) == TRUE
ColumnLoaded(key) == ColumnOfKey(key) \in loadedChunks

\* WorldRenderer._handleGeometry
HandleGeometry(data) ==
  LET old == MeshesAt({data.key})
      sc1 == SceneRemove(scene, old)
      mesh == [id |-> nextMeshId, geometry |-> data.geometry]
  IN /\ disposedMeshes' = Dispose3(disposedMeshes, old)
     /\ materialDisposedBy' = Dispose3Material(materialDisposedBy, old)
     /\ disposedTextures' = Dispose3Textures(disposedTextures, materialMap, old)
     /\ materialMap' = Dispose3Map(materialMap, old)
     /\ IF ColumnLoaded(data.key)
        THEN /\ sectionMeshs' = MapPut(sectionMeshs, data.key, mesh)
             /\ scene' = sc1 \cup {mesh.id}
             /\ nextMeshId' = nextMeshId + 1
             /\ seen' = seen \cup (IF old # {} THEN {"replace"} ELSE {})
        ELSE /\ sectionMeshs' = MapDel(sectionMeshs, data.key)
             /\ scene' = sc1
             /\ nextMeshId' = nextMeshId
             /\ seen' = seen \cup {"staleDrop"}

(***************************************************************************)
(* Coordinator: waitForChunksToRender and the 'update' event.              *)
(***************************************************************************)
\* renderUpdateEmitter.emit('update'): every listener registered when the
\* event is emitted runs once; updateHandler removes itself and resolves its
\* promise when sectionsOutstanding is empty.  st = [listeners, resolved]
RECURSIVE RunUpdateHandlers(_, _, _)
RunUpdateHandlers(st, snapshot, outstanding) ==
  IF snapshot = <<>> THEN st
  ELSE
    LET h == Head(snapshot)
        st1 == IF outstanding = {}
               THEN [listeners |-> RemoveFromSeq(st.listeners, h),
                     resolved |-> [st.resolved EXCEPT ![h] = @ + 1]]
               ELSE st
    IN RunUpdateHandlers(st1, Tail(snapshot), outstanding)

EmitUpdateMutant(ls, res, outstanding) ==
  IF ls = <<>> THEN [listeners |-> ls, resolved |-> res]
  ELSE RunUpdateHandlers([listeners |-> ls, resolved |-> res], <<Head(ls)>>, outstanding)
EmitUpdate(ls, res, outstanding) ==
  RunUpdateHandlers([listeners |-> ls, resolved |-> res], ls, outstanding)

\* WorldRenderer.waitForChunksToRender
WaitForChunksToRender ==
  /\ UNCHANGED extVars
  /\ nextWaiter <= MaxWaiters
  /\ nextWaiter' = nextWaiter + 1
  /\ IF sectionsOutstanding = {}
     THEN /\ resolved' = Append(resolved, 1)
          /\ listeners' = listeners
     ELSE /\ resolved' = Append(resolved, 0)
          /\ listeners' = Append(listeners, nextWaiter)
  /\ UNCHANGED <<coordVars, meshVars, blockStateLoads, workerVars, chanVars, histVars>>

(***************************************************************************)
(* Coordinator: lifecycle.                                                 *)
(***************************************************************************)
\* the environment makes the next API call
CanCall ==
  /\ opCount < MaxOps
  /\ \A w \in Workers : terminated[w] \/ Len(toWorker[w]) <= MaxInbox

\* the body of resetWorld, shared with setVersion; tw: the channels after it
ResetWorldBody ==
  /\ scene' = SceneRemove(scene, MeshesAt(DOMAIN sectionMeshs))
  /\ disposedMeshes' = Dispose3(disposedMeshes, MeshesAt(DOMAIN sectionMeshs))
  /\ materialDisposedBy' = Dispose3Material(materialDisposedBy, MeshesAt(DOMAIN sectionMeshs))
  /\ disposedTextures' =
       Dispose3Textures(disposedTextures, materialMap, MeshesAt(DOMAIN sectionMeshs))
  /\ materialMap' = Dispose3Map(materialMap, MeshesAt(DOMAIN sectionMeshs))
  /\ sectionMeshs' = EmptyMap
  /\ loadedChunks' = {}
  /\ sectionsOutstanding' = {}
  /\ worldTruth' = EmptyMap
  /\ seen' = seen \cup (IF version # None THEN {"reset"} ELSE {})

\* WorldRenderer.resetWorld
ResetWorld ==
  /\ UNCHANGED <<everLoaded, texRest, unitVars>>
  /\ CanCall
  /\ opCount' = opCount + 1
  /\ active' = FALSE
  /\ ResetWorldBody
  /\ toWorker' = Broadcast(toWorker, workers, [type |-> "reset"])
  /\ UNCHANGED <<workersActive, workers, version, pendingDirtySections,
                 waitVars, nextMeshId, blockStateLoads, workerVars, fromWorker,
                 frameDirty, ungenerated, frameCount>>

\* the messages of setVersion: resetWorld's reset to every worker, then the
\* version to every worker
SetVersionPostsMutant(tw, ws, v) ==
  Broadcast(Broadcast(tw, ws, [type |-> "version", version |-> v]),
            ws, [type |-> "reset"])
SetVersionPosts(tw, ws, v) ==
  Broadcast(Broadcast(tw, ws, [type |-> "reset"]),
            ws, [type |-> "version", version |-> v])

\* WorldRenderer.setVersion, with the block-state load updateTexturesData starts
SetVersion(v) ==
  /\ textureLoads' = textureLoads + 1
  /\ texturePending' = [texturePending EXCEPT ![v] = @ + 1]
  /\ UNCHANGED <<everLoaded, currentTexture, nextTextureId, texLog, textureOf, unitVars>>
  /\ CanCall
  /\ opCount' = opCount + 1
  /\ version' = v
  /\ ResetWorldBody
  /\ active' = TRUE
  /\ toWorker' = SetVersionPosts(toWorker, workers, v)
  /\ blockStateLoads' = [blockStateLoads EXCEPT ![v] = @ + 1]
  /\ UNCHANGED <<workersActive, workers, pendingDirtySections, waitVars,
                 nextMeshId, workerVars, fromWorker, frameDirty, ungenerated, frameCount>>

\* loadBlockStates().then(...): a started load completes
BlockStatesLoaded(v) ==
  /\ UNCHANGED extVars
  /\ blockStateLoads[v] > 0
  /\ blockStateLoads' = [blockStateLoads EXCEPT ![v] = @ - 1]
  /\ toWorker' = Broadcast(toWorker, workers, [type |-> "blockStates", json |-> v])
  /\ UNCHANGED <<coordVars, waitVars, meshVars, workerVars, fromWorker, histVars>>

\* for (const worker of this.workers) worker.terminate()
TerminateWorkersMutant(term, ws) == term
TerminateWorkers(term, ws) == [w \in Workers |-> term[w] \/ w \in SeqToSet(ws)]

\* WorldRenderer.dispose
Dispose ==
  /\ CanCall
  /\ opCount' = opCount + 1
  /\ active' = FALSE
  /\ workersActive' = FALSE
  /\ scene' = SceneRemove(scene, MeshesAt(DOMAIN sectionMeshs))
  /\ disposedMeshes' = Dispose3(disposedMeshes, MeshesAt(DOMAIN sectionMeshs))
  /\ materialDisposedBy' =
       Dispose3Material(materialDisposedBy, MeshesAt(DOMAIN sectionMeshs)) \cup {"dispose"}
  /\ disposedTextures' =
       DisposeTexture(Dispose3Textures(disposedTextures, materialMap,
                                       MeshesAt(DOMAIN sectionMeshs)),
                      currentTexture)
  /\ materialMap' = Dispose3Map(materialMap, MeshesAt(DOMAIN sectionMeshs))
  /\ currentTexture' = None
  /\ UNCHANGED <<everLoaded, textureLoads, nextTextureId, texLog, texturePending,
                 textureOf, unitVars>>
  /\ sectionMeshs' = EmptyMap
  /\ terminated' = TerminateWorkers(terminated, workers)
  /\ toWorker' = [w \in Workers |-> IF w \in SeqToSet(workers) THEN <<>> ELSE toWorker[w]]
  /\ workers' = <<>>
  /\ loadedChunks' = {}
  /\ sectionsOutstanding' = {}
  /\ listeners' = <<>>
  /\ worldTruth' = EmptyMap
  /\ seen' = seen \cup {"reset"}
  /\ UNCHANGED <<version, pendingDirtySections, resolved, nextWaiter, nextMeshId,
                 blockStateLoads, wWorld, wBlocksStates, dirtySections,
                 fromWorker, frameDirty, ungenerated, frameCount>>

\* WorldRenderer.clearPendingDirtySections, called by Viewer.update once a frame
ClearPendingDirtySections ==
  /\ UNCHANGED extVars
  /\ frameCount < MaxFrames
  /\ frameCount' = frameCount + 1
  /\ pendingDirtySections # {}
  /\ pendingDirtySections' = {}
  /\ frameDirty' = [k \in AllKeys |-> 0]
  /\ UNCHANGED <<active, workersActive, workers, version, sectionMeshs,
                 loadedChunks, sectionsOutstanding, waitVars, meshVars,
                 blockStateLoads, workerVars, chanVars, opCount, worldTruth,
                 ungenerated, seen>>

(***************************************************************************)
(* Coordinator: world updates.                                             *)
(***************************************************************************)
\* the setSectionDirty calls of addColumn from level l upwards, in order
RECURSIVE AddColumnMarks(_, _, _)
AddColumnMarks(x, z, l) ==
  IF l * SECTION_HEIGHT >= WORLD_HEIGHT THEN <<>>
  ELSE LET loc == <<x, l * SECTION_HEIGHT, z>>
       IN << <<loc, TRUE>>,
             <<Offset(loc, -16, 0, 0), TRUE>>,
             <<Offset(loc, 16, 0, 0), TRUE>>,
             <<Offset(loc, 0, 0, -16), TRUE>>,
             <<Offset(loc, 0, 0, 16), TRUE>> >> \o AddColumnMarks(x, z, l + 1)

\* WorldRenderer.addColumn
AddColumn(x, z, chunk) ==
  /\ everLoaded' = everLoaded \cup {columnKey(x, z)}
  /\ UNCHANGED <<texVars, unitVars>>
  /\ CanCall
  /\ opCount' = opCount + 1
  /\ loadedChunks' = loadedChunks \cup {columnKey(x, z)}
  /\ worldTruth' = MapPut(worldTruth, columnKey(x, z),
                          [p \in PositionsInColumn(columnKey(x, z)) |->
                             chunk.blocks[InChunk(columnKey(x, z), p)]])
  /\ LET tw == Broadcast(toWorker, workers,
                         [type |-> "chunk", x |-> x, z |-> z, chunk |-> chunk])
     IN ApplyDirtyState(SetSectionsDirty(DirtyState(tw, {}), AddColumnMarks(x, z, 0)))
  /\ UNCHANGED <<active, workersActive, workers, version, sectionMeshs, waitVars,
                 meshVars, blockStateLoads, workerVars, fromWorker, ungenerated, frameCount>>

\* the setSectionDirty(pos, false) calls of removeColumn from level l upwards
RECURSIVE RemoveColumnMarks(_, _, _)
RemoveColumnMarks(x, z, l) ==
  IF l * SECTION_HEIGHT >= WORLD_HEIGHT THEN <<>>
  ELSE << <<<<x, l * SECTION_HEIGHT, z>>, FALSE>> >> \o RemoveColumnMarks(x, z, l + 1)

\* WorldRenderer.removeColumn
RemoveColumn(x, z) ==
  /\ UNCHANGED <<everLoaded, texRest, unitVars>>
  /\ CanCall
  /\ opCount' = opCount + 1
  /\ loadedChunks' = loadedChunks \ {columnKey(x, z)}
  /\ worldTruth' = MapDel(worldTruth, columnKey(x, z))
  /\ LET tw == Broadcast(toWorker, workers, [type |-> "unloadChunk", x |-> x, z |-> z])
         ev == IF active /\ MeshesAt(SectionsOfColumn(columnKey(x, z))) # {}
               THEN {"removeMesh"} ELSE {}
     IN ApplyDirtyState(SetSectionsDirty(DirtyState(tw, ev), RemoveColumnMarks(x, z, 0)))
  /\ LET keys == SectionsOfColumn(columnKey(x, z))
     IN /\ scene' = SceneRemove(scene, MeshesAt(keys))
        /\ disposedMeshes' = Dispose3(disposedMeshes, MeshesAt(keys))
        /\ materialDisposedBy' = Dispose3Material(materialDisposedBy, MeshesAt(keys))
        /\ disposedTextures' = Dispose3Textures(disposedTextures, materialMap, MeshesAt(keys))
        /\ materialMap' = Dispose3Map(materialMap, MeshesAt(keys))
        /\ sectionMeshs' = MapDelAll(sectionMeshs, keys)
  /\ UNCHANGED <<active, workersActive, workers, version, waitVars, nextMeshId,
                 blockStateLoads, workerVars, fromWorker, ungenerated, frameCount>>

\* the marks of a setBlockStateId that takes the offset with %, the
\* remainder of a division that truncates
BlockUpdateMarksMutant(pos) ==
  << <<pos, TRUE>> >>
  \o (IF JsRem(pos[1], 16) = 0 THEN << <<Offset(pos, -16, 0, 0), TRUE>> >> ELSE <<>>)
  \o (IF JsRem(pos[1], 16) = 15 THEN << <<Offset(pos, 16, 0, 0), TRUE>> >> ELSE <<>>)
  \o (IF JsRem(pos[2], 16) = 0 THEN << <<Offset(pos, 0, -16, 0), TRUE>> >> ELSE <<>>)
  \o (IF JsRem(pos[2], 16) = 15 THEN << <<Offset(pos, 0, 16, 0), TRUE>> >> ELSE <<>>)
  \o (IF JsRem(pos[3], 16) = 0 THEN << <<Offset(pos, 0, 0, -16), TRUE>> >> ELSE <<>>)
  \o (IF JsRem(pos[3], 16) = 15 THEN << <<Offset(pos, 0, 0, 16), TRUE>> >> ELSE <<>>)

\* the setSectionDirty calls of setBlockStateId, in order
BlockUpdateMarks(pos) ==
  << <<pos, TRUE>> >>
  \o (IF And15(pos[1]) = 0 THEN << <<Offset(pos, -16, 0, 0), TRUE>> >> ELSE <<>>)
  \o (IF And15(pos[1]) = 15 THEN << <<Offset(pos, 16, 0, 0), TRUE>> >> ELSE <<>>)
  \o (IF And15(pos[2]) = 0 THEN << <<Offset(pos, 0, -16, 0), TRUE>> >> ELSE <<>>)
  \o (IF And15(pos[2]) = 15 THEN << <<Offset(pos, 0, 16, 0), TRUE>> >> ELSE <<>>)
  \o (IF And15(pos[3]) = 0 THEN << <<Offset(pos, 0, 0, -16), TRUE>> >> ELSE <<>>)
  \o (IF And15(pos[3]) = 15 THEN << <<Offset(pos, 0, 0, 16), TRUE>> >> ELSE <<>>)

\* WorldRenderer.setBlockStateId
SetBlockStateId(pos, stateId) ==
  /\ UNCHANGED extVars
  /\ CanCall
  /\ opCount' = opCount + 1
  /\ LET col == ColumnOfKey(SectionKeyOf(pos))
     IN worldTruth' = IF col \in DOMAIN worldTruth
                      THEN [worldTruth EXCEPT ![col][pos] = stateId]
                      ELSE worldTruth
  /\ LET tw == Broadcast(toWorker, workers,
                         [type |-> "blockUpdate", pos |-> pos, stateId |-> stateId])
     IN ApplyDirtyState(SetSectionsDirty(DirtyState(tw, {}), BlockUpdateMarks(pos)))
  /\ UNCHANGED <<active, workersActive, workers, version, sectionMeshs,
                 loadedChunks, waitVars, meshVars, blockStateLoads, workerVars,
                 fromWorker, ungenerated, frameCount>>

\* WorldRenderer.setSectionDirty called on its own
MarkSection(pos, value) ==
  /\ UNCHANGED extVars
  /\ CanCall
  /\ opCount' = opCount + 1
  /\ ApplyDirtyState(SetSectionDirty(DirtyState(toWorker, {}), pos, value))
  /\ UNCHANGED <<active, workersActive, workers, version, sectionMeshs,
                 loadedChunks, waitVars, meshVars, blockStateLoads, workerVars,
                 fromWorker, worldTruth, ungenerated, frameCount>>

\* worker.onmessage of the coordinator, for the oldest message of worker w
CoordReceive(w) ==
  /\ UNCHANGED <<everLoaded, texRest, unitVars>>
  /\ fromWorker[w] # <<>>
  /\ fromWorker' = [fromWorker EXCEPT ![w] = Tail(@)]
  /\ LET data == Head(fromWorker[w])
     IN IF ~workersActive
        THEN UNCHANGED <<sectionMeshs, sectionsOutstanding, waitVars, meshVars, seen,
                         disposedTextures, materialMap>>
        ELSE IF data.type = "geometry"
        THEN /\ HandleGeometry(data)
             /\ UNCHANGED <<sectionsOutstanding, waitVars>>
        ELSE IF data.type = "sectionFinished"
        THEN /\ sectionsOutstanding' = sectionsOutstanding \ {data.key}
             /\ LET st == EmitUpdate(listeners, resolved, sectionsOutstanding \ {data.key})
                IN /\ listeners' = st.listeners
                   /\ resolved' = st.resolved
                   /\ seen' = seen \cup (IF Len(listeners) >= 2 /\ st.listeners = <<>>
                                         THEN {"multiResolve"} ELSE {})
             /\ UNCHANGED <<sectionMeshs, meshVars, nextWaiter, disposedTextures,
                            materialMap>>
        ELSE UNCHANGED <<sectionMeshs, sectionsOutstanding, waitVars, meshVars, seen,
                         disposedTextures, materialMap>>
  /\ UNCHANGED <<active, workersActive, workers, version, loadedChunks,
                 pendingDirtySections, blockStateLoads, workerVars, toWorker,
                 opCount, frameCount, frameDirty, worldTruth, ungenerated>>

(***************************************************************************)
(* Worker: the World replica.                                              *)
(***************************************************************************)
\* World.getColumn returns a column (not undefined)
HasColumn(world, x, z) == columnKey(x, z) \in DOMAIN world.columns

\* World.getColumn, where it returns a column
GetColumn(world, x, z) == world.columns[columnKey(x, z)]

\* World.addColumn: Chunk.fromJson(json) stored at the column key
WorldAddColumn(world, x, z, json) ==
  [world EXCEPT !.columns = MapPut(@, columnKey(x, z),
                                   [sections |-> json.sections, blocks |-> json.blocks])]

\* World.removeColumn
WorldRemoveColumn(world, x, z) == [world EXCEPT !.columns = MapDel(@, columnKey(x, z))]

\* a setBlockStateId that stores the state even when the column is missing
WorldSetBlockStateIdMutant(world, pos, stateId) ==
  [world EXCEPT !.columns =
     MapPut(@, columnKey(Floor16(pos[1]), Floor16(pos[3])),
            [sections |-> {}, blocks |-> [q \in {PosInChunk(pos)} |-> stateId]])]

\* World.setBlockStateId: the world after the call (unchanged when the
\* column is not loaded and the call returns false); the column stores the
\* state and, for a state that is not air, creates the section it lies in
WorldSetBlockStateId(world, pos, stateId) ==
  LET key == columnKey(Floor16(pos[1]), Floor16(pos[3]))
  IN IF key \notin DOMAIN world.columns THEN world
     ELSE [world EXCEPT !.columns[key].blocks[PosInChunk(pos)] = stateId,
                        !.columns[key].sections =
                           IF stateId # 0 THEN @ \cup {FloorDiv16(pos[2])} ELSE @]

\* chunk && chunk.sections[Math.floor(y / 16)]
HasSection(world, key) ==
  /\ world.exists
  /\ HasColumn(world, key[1], key[3])
  /\ FloorDiv16(key[2]) \in GetColumn(world, key[1], key[3]).sections

\* the mesher's result for a section: the blocks it read and the mesh origin
SectionGeometry(world, key) ==
  [blocks |-> [p \in PositionsInSection(key) |->
                 GetColumn(world, key[1], key[3]).blocks[PosInChunk(p)]],
   origin |-> key]

(***************************************************************************)
(* Worker: message handling.                                               *)
(***************************************************************************)
\* dirtySections[key] = value keeps the key's place when it is already there
QueuePut(q, key) == IF key \in SeqToSet(q) THEN q ELSE Append(q, key)

\* the messages setSectionDirty of the worker posts
WorkerDirtyRepliesMutant(world, key, value) ==
  IF ~value THEN << [type |-> "sectionFinished", key |-> key] >> ELSE <<>>
WorkerDirtyReplies(world, key, value) ==
  IF ~value THEN << [type |-> "sectionFinished", key |-> key] >>
  ELSE IF HasSection(world, key) THEN <<>>
  ELSE << [type |-> "sectionFinished", key |-> key] >>

\* the dirty queue after setSectionDirty of the worker
WorkerDirtyQueueMutant(q, world, key, value) ==
  IF ~value THEN q
  ELSE IF HasSection(world, key) THEN QueuePut(q, key)
  ELSE q
WorkerDirtyQueue(q, world, key, value) ==
  IF ~value THEN RemoveFromSeq(q, key)
  ELSE IF HasSection(world, key) THEN QueuePut(q, key)
  ELSE q

\* handleMessage of worker w for the oldest message sent to it
WorkerReceive(w) ==
  /\ UNCHANGED extVars
  /\ ~terminated[w]
  /\ toWorker[w] # <<>>
  /\ toWorker' = [toWorker EXCEPT ![w] = Tail(@)]
  /\ LET data == Head(toWorker[w])
     IN CASE data.type = "version" ->
               /\ wWorld' = [wWorld EXCEPT ![w] = NewWorld]
               /\ ungenerated' = [ungenerated EXCEPT ![w] = {}]
               /\ UNCHANGED <<wBlocksStates, dirtySections, fromWorker>>
          [] data.type = "blockStates" ->
               /\ wBlocksStates' = [wBlocksStates EXCEPT ![w] = data.json]
               /\ UNCHANGED <<wWorld, dirtySections, fromWorker, ungenerated>>
          [] data.type = "dirty" ->
               LET key == SectionKeyOf(data.pos)
               IN /\ dirtySections' = [dirtySections EXCEPT
                        ![w] = WorkerDirtyQueue(@, wWorld[w], key, data.value)]
                  /\ fromWorker' = [fromWorker EXCEPT
                        ![w] = @ \o WorkerDirtyReplies(wWorld[w], key, data.value)]
                  /\ UNCHANGED <<wWorld, wBlocksStates, ungenerated>>
          [] data.type = "chunk" ->
               /\ IF wWorld[w].exists
                  THEN /\ wWorld' = [wWorld EXCEPT
                             ![w] = WorldAddColumn(@, data.x, data.z, data.chunk)]
                       /\ ungenerated' = [ungenerated EXCEPT
                             ![w] = {k \in @ : ColumnOfKey(k) # columnKey(data.x, data.z)}]
                  ELSE UNCHANGED <<wWorld, ungenerated>>
               /\ UNCHANGED <<wBlocksStates, dirtySections, fromWorker>>
          [] data.type = "unloadChunk" ->
               /\ IF wWorld[w].exists
                  THEN /\ wWorld' = [wWorld EXCEPT
                             ![w] = WorldRemoveColumn(@, data.x, data.z)]
                       /\ ungenerated' = [ungenerated EXCEPT
                             ![w] = {k \in @ : ColumnOfKey(k) # columnKey(data.x, data.z)}]
                  ELSE UNCHANGED <<wWorld, ungenerated>>
               /\ UNCHANGED <<wBlocksStates, dirtySections, fromWorker>>
          [] data.type = "blockUpdate" ->
               /\ IF wWorld[w].exists
                  THEN /\ wWorld' = [wWorld EXCEPT
                             ![w] = WorldSetBlockStateId(@, data.pos, data.stateId)]
                       /\ ungenerated' = [ungenerated EXCEPT ![w] =
                             IF /\ HasSection(wWorld[w], SectionKeyOf(data.pos))
                                /\ Hash(data.pos, NumWorkers) = w
                             THEN @ \cup {SectionKeyOf(data.pos)} ELSE @]
                  ELSE UNCHANGED <<wWorld, ungenerated>>
               /\ UNCHANGED <<wBlocksStates, dirtySections, fromWorker>>
          [] data.type = "reset" ->
               /\ wWorld' = [wWorld EXCEPT ![w] = NullWorld]
               /\ wBlocksStates' = [wBlocksStates EXCEPT ![w] = None]
               /\ dirtySections' = [dirtySections EXCEPT ![w] = <<>>]
               /\ ungenerated' = [ungenerated EXCEPT ![w] = {}]
               /\ UNCHANGED fromWorker
  /\ UNCHANGED <<coordVars, waitVars, meshVars, blockStateLoads, terminated,
                 opCount, frameDirty, worldTruth, frameCount, seen>>

(***************************************************************************)
(* Worker: the processing tick.                                            *)
(***************************************************************************)
\* the messages one iteration of the loop of processDirtySections posts for
\* key; throws: the mesher throws for this section
TickRepliesOrderMutant(world, key, throws) ==
  IF HasSection(world, key)
  THEN IF throws
       THEN << [type |-> "error", key |-> key],
               [type |-> "sectionFinished", key |-> key] >>
       ELSE << [type |-> "sectionFinished", key |-> key],
               [type |-> "geometry", key |-> key, geometry |-> SectionGeometry(world, key)] >>
  ELSE << [type |-> "sectionFinished", key |-> key] >>
TickRepliesMutant(world, key, throws) ==
  IF HasSection(world, key)
  THEN IF throws
       THEN << [type |-> "error", key |-> key] >>
       ELSE << [type |-> "geometry", key |-> key, geometry |-> SectionGeometry(world, key)],
               [type |-> "sectionFinished", key |-> key] >>
  ELSE <<>>
TickReplies(world, key, throws) ==
  IF HasSection(world, key)
  THEN IF throws
       THEN << [type |-> "error", key |-> key],
               [type |-> "sectionFinished", key |-> key] >>
       ELSE << [type |-> "geometry", key |-> key, geometry |-> SectionGeometry(world, key)],
               [type |-> "sectionFinished", key |-> key] >>
  ELSE << [type |-> "sectionFinished", key |-> key] >>

\* the loop of processDirtySections over the keys the queue held at its
\* start; st = [queue, out, generated]
RECURSIVE ProcessSectionsMutant(_, _, _, _)
ProcessSectionsMutant(st, sections, world, failing) ==
  IF sections = <<>> THEN st
  ELSE
    LET key == Head(sections)
        st1 == [queue |-> IF HasSection(world, key)
                          THEN RemoveFromSeq(st.queue, key) ELSE st.queue,
                out |-> st.out \o TickReplies(world, key, key \in failing),
                generated |-> IF HasSection(world, key)
                              THEN st.generated \cup {key} ELSE st.generated]
    IN IF key \in failing THEN st1
       ELSE ProcessSectionsMutant(st1, Tail(sections), world, failing)

RECURSIVE ProcessSections(_, _, _, _)
ProcessSections(st, sections, world, failing) ==
  IF sections = <<>> THEN st
  ELSE
    LET key == Head(sections)
        st1 == [queue |-> IF HasSection(world, key)
                          THEN RemoveFromSeq(st.queue, key) ELSE st.queue,
                out |-> st.out \o TickReplies(world, key, key \in failing),
                generated |-> IF HasSection(world, key)
                              THEN st.generated \cup {key} ELSE st.generated]
    IN ProcessSections(st1, Tail(sections), world, failing)

\* if (world === null || blocksStates === null) return
CanProcessMutant(world, table) == world.exists
CanProcess(world, table) == world.exists /\ table # None

\* processDirtySections of worker w; failing: the sections the mesher throws for
WorkerTick(w, failing) ==
  /\ UNCHANGED extVars
  /\ ~terminated[w]
  /\ CanProcess(wWorld[w], wBlocksStates[w])
  /\ dirtySections[w] # <<>>
  /\ Len(fromWorker[w]) < MaxOutbox
  /\ failing \subseteq {k \in SeqToSet(dirtySections[w]) : HasSection(wWorld[w], k)}
  /\ LET st == ProcessSections([queue |-> dirtySections[w], out |-> <<>>, generated |-> {}],
                               dirtySections[w], wWorld[w], failing)
     IN /\ dirtySections' = [dirtySections EXCEPT ![w] = st.queue]
        /\ fromWorker' = [fromWorker EXCEPT ![w] = @ \o st.out]
        /\ ungenerated' = [ungenerated EXCEPT ![w] = @ \ st.generated]
        /\ seen' = seen \cup (IF failing # {} THEN {"mesherError"} ELSE {})
                        \cup (IF SeqToSet(dirtySections[w]) # st.generated
                              THEN {"skip"} ELSE {})
  /\ UNCHANGED <<coordVars, waitVars, meshVars, blockStateLoads, wWorld,
                 wBlocksStates, terminated, toWorker, opCount, frameDirty,
                 worldTruth, frameCount>>

(***************************************************************************)
(* The specification.                                                      *)
(***************************************************************************)
SectionOrigins == UNION {SectionsOfColumn(c) : c \in Columns}

\* the API calls of the environment that load, unload and mutate the world
WorldCalls ==
  \/ \E v \in Versions : SetVersion(v)
  \/ ResetWorld
  \/ Dispose
  \/ \E c \in Columns : \E chunk \in ChunkPayloads(c) : AddColumn(c[1], c[2], chunk)
  \/ \E c \in Columns : RemoveColumn(c[1], c[2])

\* the steps of the workers, of message delivery and of asynchronous loads
SystemNext ==
  \/ \E v \in Versions : BlockStatesLoaded(v)
  \/ \E w \in Workers : CoordReceive(w)
  \/ \E w \in Workers : WorkerReceive(w)
  \/ \E w \in Workers : \E failing \in SUBSET SeqToSet(dirtySections[w]) :
       WorkerTick(w, failing)

Next ==
  \/ WorldCalls
  \/ \E pos \in Positions : \E s \in StateIds : SetBlockStateId(pos, s)
  \/ \E pos \in SectionOrigins : \E value \in BOOLEAN : MarkSection(pos, value)
  \/ ClearPendingDirtySections
  \/ SystemNext

Spec == Init /\ [][Next]_vars

\* the pipeline with callers of waitForChunksToRender
WaitNext ==
  \/ WorldCalls
  \/ WaitForChunksToRender
  \/ SystemNext

SpecWait == Init /\ [][WaitNext]_vars

\* message delivery, worker ticks (setInterval) and load completions are
\* scheduled by the event loops of the coordinator and of the workers
Fairness ==
  /\ \A v \in Versions : WF_vars(BlockStatesLoaded(v))
  /\ \A w \in Workers : WF_vars(CoordReceive(w))
  /\ \A w \in Workers : WF_vars(WorkerReceive(w))
  /\ \A w \in Workers :
       WF_vars(\E failing \in SUBSET SeqToSet(dirtySections[w]) : WorkerTick(w, failing))

FairSpec == Init /\ [][Next]_vars /\ Fairness

\* the message types whose handling calls into prismarine-chunk or
\* minecraft-data with data of the message, and so may throw
ThrowingTypes == {"version", "chunk", "blockUpdate"}

\* the key of an error message of handleMessage: it carries none
NoKey == <<>>

\* the catch block of handleMessage: postMessage({ type: 'error', ... })
HandlerErrorRepliesMutant == <<>>
HandlerErrorReplies == << [type |-> "error", key |-> NoKey] >>

\* handleMessage of worker w for the oldest message sent to it, when the
\* library call it makes throws: the assignment or store after the call
\* does not happen and the catch block reports the error
WorkerThrows(w) ==
  /\ UNCHANGED extVars
  /\ ~terminated[w]
  /\ toWorker[w] # <<>>
  /\ Head(toWorker[w]).type \in ThrowingTypes
  /\ Head(toWorker[w]).type \in {"chunk", "blockUpdate"} => wWorld[w].exists
  /\ toWorker' = [toWorker EXCEPT ![w] = Tail(@)]
  /\ fromWorker' = [fromWorker EXCEPT ![w] = @ \o HandlerErrorReplies]
  /\ UNCHANGED <<coordVars, waitVars, meshVars, blockStateLoads, workerVars, histVars>>

\* the pipeline with workers whose message handling may throw
ErrCalls ==
  \/ \E v \in Versions : SetVersion(v)
  \/ \E c \in Columns : \E chunk \in ChunkPayloads(c) : AddColumn(c[1], c[2], chunk)
  \/ \E pos \in Positions : \E id \in StateIds : SetBlockStateId(pos, id)

ErrNext == ErrCalls \/ SystemNext \/ (\E w \in Workers : WorkerThrows(w))

SpecErr == Init /\ [][ErrNext]_vars

\* the pipeline loading and unloading two columns of the same worker, so
\* that one tick of that worker drains several sections
TickCalls ==
  \/ \E v \in Versions : SetVersion(v)
  \/ \E c \in TickColumns : \E chunk \in ChunkPayloads(c) : AddColumn(c[1], c[2], chunk)
  \/ \E c \in TickColumns : RemoveColumn(c[1], c[2])

TickNext == TickCalls \/ ClearPendingDirtySections \/ SystemNext

SpecTick == Init /\ [][TickNext]_vars

(***************************************************************************)
(* Helpers of the properties.                                              *)
(***************************************************************************)
\* the messages a step appended to the inbox of worker w
Posted(w) == SubSeq(toWorker'[w], Len(toWorker[w]) + 1, Len(toWorker'[w]))

\* the step is an API call of the environment
IsCall == opCount' = opCount + 1

\* the step delivers the oldest message of worker w to the coordinator
Delivers(w) == fromWorker[w] # <<>> /\ fromWorker'[w] = Tail(fromWorker[w])

LiveWorkers == {w \in Workers : ~terminated[w]}

\* nothing is in flight and no worker has work left
Quiescent ==
  /\ \A w \in LiveWorkers :
       toWorker[w] = <<>> /\ fromWorker[w] = <<>> /\ dirtySections[w] = <<>>
  /\ \A v \in Versions : blockStateLoads[v] = 0

(***************************************************************************)
(* C1: whenever sectionsOutstanding is empty no dispatched generation is   *)
(* incomplete: no worker's dirty queue holds a section that was dispatched *)
(* with dirty(value=true).  Stated for an active coordinator that has not  *)
(* been reset and for the sections of loaded columns whose unmark is not   *)
(* on its way to the worker.                                               *)
(***************************************************************************)
UnmarkInFlight(w, k) ==
  \E i \in DOMAIN toWorker[w] :
    /\ toWorker[w][i].type = "dirty"
    /\ ~toWorker[w][i].value
    /\ SectionKeyOf(toWorker[w][i].pos) = k

C1_OutstandingEmptyMeansComplete ==
  (active /\ "reset" \notin seen /\ sectionsOutstanding = {}) =>
    \A w \in Workers :
      \A k \in SeqToSet(dirtySections[w]) :
        ColumnLoaded(k) => UnmarkInFlight(w, k)

(***************************************************************************)
(* C2: no mutation is lost: once everything in flight has been processed,  *)
(* no worker holds a section it is assigned whose replica was mutated      *)
(* after the worker last generated it.                                     *)
(***************************************************************************)
C2_NoMutationLost ==
  Quiescent => \A w \in LiveWorkers : ungenerated[w] = {}

(***************************************************************************)
(* C3: an addColumn on an active coordinator with a worker posts, after    *)
(* the column's chunk message, a dirty(value=true) message for every       *)
(* section of the column to the worker the section is assigned to.         *)
(***************************************************************************)
C3_AddColumnMarksEverySection ==
  [][(IsCall /\ active /\ workers # <<>>) =>
       \A w \in Workers :
         \A i \in DOMAIN Posted(w) :
           Posted(w)[i].type = "chunk" =>
             \A k \in SectionsOfColumn(columnKey(Posted(w)[i].x, Posted(w)[i].z)) :
               Hash(k, NumWorkers) = w =>
                 \E j \in DOMAIN Posted(w) :
                   /\ j > i
                   /\ Posted(w)[j] = [type |-> "dirty", pos |-> k, value |-> TRUE]]_vars

(***************************************************************************)
(* C4: within one frame, with no unmark in between, the marks of a section *)
(* post exactly one dirty(value=true) message: the number posted for a key *)
(* in the current frame is 1 while the key is pending and 0 otherwise;     *)
(* every dirty message is in the inbox of the worker its section is        *)
(* assigned to; and a mark of a key that is not pending (a later frame)    *)
(* posts a dirty message for it again.                                     *)
(***************************************************************************)
C4_DirtyMessagesInFrame ==
  /\ \A k \in AllKeys : frameDirty[k] = IF k \in pendingDirtySections THEN 1 ELSE 0
  /\ \A w \in Workers :
       \A i \in DOMAIN toWorker[w] :
         toWorker[w][i].type = "dirty" => Hash(toWorker[w][i].pos, NumWorkers) = w

C4_LaterFrameDispatches ==
  \A pos \in SectionOrigins :
    (/\ MarkSection(pos, TRUE)
     /\ active
     /\ workers # <<>>
     /\ SectionKeyOf(pos) \notin pendingDirtySections)
    => Posted(Hash(pos, NumWorkers)) = << [type |-> "dirty", pos |-> pos, value |-> TRUE] >>

C4_OneDispatchPerFrame == [](C4_DirtyMessagesInFrame) /\ [][C4_LaterFrameDispatches]_vars

\* a second mark of a pending section was skipped as a duplicate, and the
\* frame holds one dirty message of a pending section
C4_Witness ==
  /\ "dedup" \in seen
  /\ \E k \in pendingDirtySections : frameDirty[k] = 1

(***************************************************************************)
(* C5: every key of sectionMeshs belongs to a column in loadedChunks, and  *)
(* the delivery of a geometry message whose column is not loaded installs  *)
(* no mesh, constructs none and adds nothing to the scene.                 *)
(***************************************************************************)
C5_MeshesOfLoadedColumns ==
  \A k \in DOMAIN sectionMeshs : ColumnOfKey(k) \in loadedChunks

C5_StaleGeometryDropped ==
  \A w \in Workers :
    (/\ Delivers(w)
     /\ workersActive
     /\ Head(fromWorker[w]).type = "geometry"
     /\ ColumnOfKey(Head(fromWorker[w]).key) \notin loadedChunks)
    => /\ Head(fromWorker[w]).key \notin DOMAIN sectionMeshs'
       /\ scene' \subseteq scene
       /\ nextMeshId' = nextMeshId

C5_StaleResultGuard == [](C5_MeshesOfLoadedColumns) /\ [][C5_StaleGeometryDropped]_vars

\* a geometry result was discarded because its column is not loaded
C5_Witness == "staleDrop" \in seen

(***************************************************************************)
(* C6: there is at most one live mesh per section key and the section      *)
(* meshes in the scene are exactly the values of sectionMeshs; every mesh  *)
(* constructed so far is either that live mesh or out of the scene and     *)
(* disposed.                                                               *)
(***************************************************************************)
LiveMeshIds == {sectionMeshs[k].id : k \in DOMAIN sectionMeshs}

C6_OneLiveMeshPerSection ==
  /\ \A k1, k2 \in DOMAIN sectionMeshs :
       sectionMeshs[k1].id = sectionMeshs[k2].id => k1 = k2
  /\ scene = LiveMeshIds
  /\ disposedMeshes \cap scene = {}
  /\ (1 .. (nextMeshId - 1)) \ LiveMeshIds \subseteq disposedMeshes

\* a mesh was replaced by a newer one of the same section
C6_Witness == "replace" \in seen /\ sectionMeshs # EmptyMap

(***************************************************************************)
(* C7: removeColumn on an active coordinator leaves no section of the      *)
(* column in sectionsOutstanding, in sectionMeshs or in the scene, its     *)
(* meshes disposed; and a worker's dirty queue holds a section of a column *)
(* that is not loaded only while the unmark (or a reset) that drops it is  *)
(* on its way to the worker.                                               *)
(***************************************************************************)
C7_RemoveColumnClears ==
  (IsCall /\ active /\ workers # <<>>) =>
    \A w \in Workers :
      (Posted(w) # <<>> /\ Posted(w)[1].type = "unloadChunk") =>
        \A k \in SectionsOfColumn(columnKey(Posted(w)[1].x, Posted(w)[1].z)) :
          /\ k \notin sectionsOutstanding'
          /\ k \notin DOMAIN sectionMeshs'
          /\ k \in DOMAIN sectionMeshs =>
               /\ sectionMeshs[k].id \notin scene'
               /\ sectionMeshs[k].id \in disposedMeshes'

ResetInFlight(w) == \E i \in DOMAIN toWorker[w] : toWorker[w][i].type = "reset"

C7_QueueOfUnloadedColumn ==
  \A w \in LiveWorkers :
    \A k \in SeqToSet(dirtySections[w]) :
      k \in SectionOrigins /\ ~ColumnLoaded(k) => UnmarkInFlight(w, k) \/ ResetInFlight(w)

C7_RemoveColumn == [](C7_QueueOfUnloadedColumn) /\ [][C7_RemoveColumnClears]_vars

\* a column whose section had a mesh was removed, and the worker has
\* handled every message since
C7_Witness ==
  /\ "removeMesh" \in seen
  /\ active
  /\ \A w \in Workers : toWorker[w] = <<>>

(***************************************************************************)
(* C8: a caller of waitForChunksToRender that found sectionsOutstanding    *)
(* non-empty is resolved by the transition that empties the set, whichever *)
(* operation makes it: no promise is pending while the set is empty.       *)
(***************************************************************************)
C8_NoPendingWhileEmpty ==
  \A i \in DOMAIN resolved : resolved[i] = 0 => sectionsOutstanding # {}

(***************************************************************************)
(* C9: a call of waitForChunksToRender made while sectionsOutstanding is   *)
(* empty resolves at once and registers no listener; no promise resolves   *)
(* more than once; when an 'update' resolves one pending caller it         *)
(* resolves every pending caller, and it removes a listener only together  *)
(* with the resolution of that listener's own promise.                     *)
(***************************************************************************)
C9_AtMostOnce ==
  /\ \A i \in DOMAIN resolved : resolved[i] <= 1
  /\ \A i, j \in DOMAIN listeners : listeners[i] = listeners[j] => i = j
  /\ \A l \in SeqToSet(listeners) : resolved[l] = 0

C9_ImmediateWhenEmpty ==
  (nextWaiter' = nextWaiter + 1) =>
    IF sectionsOutstanding = {}
    THEN listeners' = listeners /\ resolved' = Append(resolved, 1)
    ELSE listeners' = Append(listeners, nextWaiter) /\ resolved' = Append(resolved, 0)

C9_AllResolvedTogether ==
  \A w \in Workers :
    (Delivers(w) /\ workersActive) =>
      /\ (\E l \in SeqToSet(listeners) : resolved'[l] = 1) =>
           \A l \in SeqToSet(listeners) : resolved'[l] = 1
      /\ \A l \in SeqToSet(listeners) :
           l \notin SeqToSet(listeners') <=> resolved'[l] = 1

C10_NeverStarved == <>[](sectionsOutstanding = {})

\* the bookkeeping is empty after a section failed in the mesher and all
\* calls were made
C10_Witness ==
  /\ "mesherError" \in seen
  /\ opCount = MaxOps
  /\ sectionsOutstanding = {}

(***************************************************************************)
(* C11: every dirty message, mark or unmark, is posted to the worker with  *)
(* index mod(floor(x/16) + floor(y/16) + floor(z/16), N) and to no other;  *)
(* mod yields an index in 0..N-1 for negative sums too; and for N = 4 two  *)
(* sections whose floor(x/16) differ by d go to the same worker exactly    *)
(* when d is a multiple of 4.                                              *)
(***************************************************************************)
MaxSum == 12
Sums == (0 - MaxSum) .. MaxSum
WorkerCounts == 1 .. 4

C11_ModInRange ==
  /\ \A n \in WorkerCounts : \A t \in Sums : mod(t, n) \in 0 .. (n - 1)
  /\ \A t \in Sums : \A d \in Sums : (mod(t + d, 4) = mod(t, 4)) <=> (d % 4 = 0)

C11_PostedToHashWorker ==
  \A w \in Workers :
    \A i \in DOMAIN Posted(w) :
      Posted(w)[i].type = "dirty" =>
        /\ Len(workers) = NumWorkers
        /\ workers[Hash(SectionKeyOf(Posted(w)[i].pos), NumWorkers) + 1] = w

C11_Routing == [](C11_ModInRange) /\ [][C11_PostedToHashWorker]_vars

\* a dirty message of a section with a negative coordinate is in the inbox
\* of worker 1 while worker 0 holds the dirty message of another section
C11_Witness ==
  /\ \E i \in DOMAIN toWorker[1] :
       /\ toWorker[1][i].type = "dirty"
       /\ toWorker[1][i].pos[1] < 0
  /\ \E j \in DOMAIN toWorker[0] : toWorker[0][j].type = "dirty"

(***************************************************************************)
(* C12: a section key has at most one generation request in flight: it is  *)
(* in the dirty queue of at most one worker and at most once there, and no *)
(* generation of it is started while the result of an earlier generation   *)
(* of the same key is undelivered, so no two geometry results of one key   *)
(* are on their way to the coordinator at once.                            *)
(***************************************************************************)
C12_OneRequestInFlight ==
  /\ \A w1, w2 \in Workers :
       (w1 # w2) => SeqToSet(dirtySections[w1]) \cap SeqToSet(dirtySections[w2]) = {}
  /\ \A w \in Workers :
       \A i, j \in DOMAIN dirtySections[w] :
         dirtySections[w][i] = dirtySections[w][j] => i = j
  /\ \A w \in Workers :
       \A i, j \in DOMAIN fromWorker[w] :
         (/\ fromWorker[w][i].type = "geometry"
          /\ fromWorker[w][j].type = "geometry"
          /\ fromWorker[w][i].key = fromWorker[w][j].key) => i = j

(***************************************************************************)
(* Steps of a worker, recognised by what they change.                      *)
(***************************************************************************)
\* the messages a step appended to the outbox of worker w
Produced(w) == SubSeq(fromWorker'[w], Len(fromWorker[w]) + 1, Len(fromWorker'[w]))

\* the step is a tick of worker w (processDirtySections past its guards)
TickOf(w) ==
  /\ toWorker' = toWorker
  /\ opCount' = opCount
  /\ frameCount' = frameCount
  /\ blockStateLoads' = blockStateLoads
  /\ ~terminated[w]
  /\ wWorld[w].exists /\ wBlocksStates[w] # None
  /\ dirtySections[w] # <<>>
  /\ Len(fromWorker'[w]) > Len(fromWorker[w])

\* the step is worker w handling the oldest message of its inbox
HandlesMessage(w) ==
  /\ ~terminated[w]
  /\ terminated' = terminated
  /\ opCount' = opCount
  /\ toWorker[w] # <<>>
  /\ toWorker'[w] = Tail(toWorker[w])

FinishedAt(out, key) ==
  {i \in DOMAIN out : out[i] = [type |-> "sectionFinished", key |-> key]}

(***************************************************************************)
(* C13: in a tick that runs with world and block-state table set, every    *)
(* key the dirty queue held at its start gets a sectionFinished message    *)
(* with that key, whether the section was generated, the mesher threw or   *)
(* the section was skipped; a section that exists gets a geometry or an    *)
(* error message, and that message precedes its sectionFinished.           *)
(***************************************************************************)
C13_TickStep ==
  \A w \in Workers :
    TickOf(w) =>
      \A k \in SeqToSet(dirtySections[w]) :
        /\ FinishedAt(Produced(w), k) # {}
        /\ \A i \in DOMAIN Produced(w) :
             (Produced(w)[i].type \in {"geometry", "error"} /\ Produced(w)[i].key = k)
             => \E j \in FinishedAt(Produced(w), k) : j > i
        /\ HasSection(wWorld[w], k) =>
             \E i \in DOMAIN Produced(w) :
               Produced(w)[i].type \in {"geometry", "error"} /\ Produced(w)[i].key = k

C13_EveryDrainedKeyFinishes == [][C13_TickStep]_vars

\* one tick drained two sections: the mesher threw for the first and the
\* second was generated afterwards
C13_Witness ==
  \E w \in Workers :
    \E i, j \in DOMAIN fromWorker[w] :
      /\ i < j
      /\ fromWorker[w][i].type = "error"
      /\ fromWorker[w][j].type = "geometry"
      /\ fromWorker[w][i].key # fromWorker[w][j].key

(***************************************************************************)
(* C14: a dirty message with value false removes the key from the worker's *)
(* dirty queue and posts one sectionFinished for it, whatever the replica  *)
(* holds; a dirty message with value true for a section whose column or    *)
(* sub-chunk is absent adds nothing to the queue and posts one             *)
(* sectionFinished for it at once.                                         *)
(***************************************************************************)
C14_DirtyStep ==
  \A w \in Workers :
    (HandlesMessage(w) /\ Head(toWorker[w]).type = "dirty") =>
      LET key == SectionKeyOf(Head(toWorker[w]).pos)
          done == << [type |-> "sectionFinished", key |-> key] >>
      IN IF ~Head(toWorker[w]).value
         THEN /\ key \notin SeqToSet(dirtySections'[w])
              /\ Produced(w) = done
         ELSE ~HasSection(wWorld[w], key) =>
                /\ dirtySections'[w] = dirtySections[w]
                /\ Produced(w) = done

ErrorsIn(out) == {out[i].key : i \in {j \in DOMAIN out : out[j].type = "error"}}

C15_TickStep ==
  \A w \in Workers :
    (TickOf(w) /\ ErrorsIn(Produced(w)) # {}) =>
      /\ \A k \in ErrorsIn(Produced(w)) :
           /\ k \in SeqToSet(dirtySections[w])
           /\ k \notin SeqToSet(dirtySections'[w])
           /\ \E i \in DOMAIN Produced(w) :
                /\ Produced(w)[i] = [type |-> "error", key |-> k]
                /\ FinishedAt(Produced(w), k) = {i + 1}
      /\ \A k \in SeqToSet(dirtySections[w]) \ ErrorsIn(Produced(w)) :
           /\ FinishedAt(Produced(w), k) # {}
           /\ HasSection(wWorld[w], k) =>
                /\ k \notin SeqToSet(dirtySections'[w])
                /\ \E i \in DOMAIN Produced(w) :
                     Produced(w)[i].type = "geometry" /\ Produced(w)[i].key = k
      /\ terminated' = terminated
      /\ wWorld' = wWorld
      /\ wBlocksStates' = wBlocksStates

C15_MesherFailureIsolated == [][C15_TickStep]_vars

\* the mesher threw for the first of two sections of a tick: its error and
\* sectionFinished are posted, the second section's messages follow, and
\* the queue is empty
C15_Witness ==
  \E w \in Workers :
    /\ "mesherError" \in seen
    /\ dirtySections[w] = <<>>
    /\ Len(fromWorker[w]) >= 4
    /\ fromWorker[w][1].type = "error"
    /\ fromWorker[w][2] = [type |-> "sectionFinished", key |-> fromWorker[w][1].key]
    /\ fromWorker[w][3].type = "geometry"
    /\ fromWorker[w][4] = [type |-> "sectionFinished", key |-> fromWorker[w][3].key]

(***************************************************************************)
(* C17: a tick drains the queue once: every key the dirty queue held when  *)
(* the tick started is absent from the queue when it ends, an entry whose  *)
(* column or sub-chunk is gone included.                                   *)
(***************************************************************************)
C17_TickStep ==
  \A w \in Workers :
    TickOf(w) => SeqToSet(dirtySections[w]) \cap SeqToSet(dirtySections'[w]) = {}

C17_TickDrainsQueue == [][C17_TickStep]_vars

(***************************************************************************)
(* C16: a worker that handles a message either applies it or, when the     *)
(* handling throws, posts one error message and keeps its replica, its     *)
(* block-state table and its dirty queue as they were, staying alive; a    *)
(* live worker can always handle the next message of its inbox; and the    *)
(* coordinator changes no mesh, loaded column or outstanding key when it   *)
(* receives an error message.                                              *)
(***************************************************************************)
Applied(w, data) ==
  /\ Produced(w) = <<>>
  /\ wBlocksStates' = wBlocksStates
  /\ dirtySections' = dirtySections
  /\ wWorld'[w] =
       IF data.type = "version" THEN NewWorld
       ELSE IF ~wWorld[w].exists THEN wWorld[w]
       ELSE IF data.type = "chunk" THEN WorldAddColumn(wWorld[w], data.x, data.z, data.chunk)
       ELSE WorldSetBlockStateId(wWorld[w], data.pos, data.stateId)

Caught(w) ==
  /\ Produced(w) = << [type |-> "error", key |-> NoKey] >>
  /\ wWorld' = wWorld
  /\ wBlocksStates' = wBlocksStates
  /\ dirtySections' = dirtySections

C16_HandleStep ==
  \A w \in Workers :
    (HandlesMessage(w) /\ Head(toWorker[w]).type \in ThrowingTypes) =>
      Applied(w, Head(toWorker[w])) \/ Caught(w)

C16_ErrorDelivery ==
  \A w \in Workers :
    (Delivers(w) /\ Head(fromWorker[w]).type = "error") =>
      /\ sectionMeshs' = sectionMeshs
      /\ scene' = scene
      /\ disposedMeshes' = disposedMeshes
      /\ loadedChunks' = loadedChunks
      /\ sectionsOutstanding' = sectionsOutstanding

C16_WorkerStaysUsable ==
  \A w \in LiveWorkers : toWorker[w] # <<>> => ENABLED WorkerReceive(w)

C16_HandlerErrorsCaught ==
  /\ [](C16_WorkerStaysUsable)
  /\ [][C16_HandleStep /\ C16_ErrorDelivery]_vars

\* a worker reported a failed message and has handled a later message and
\* run a tick since: its geometry follows the error in the outbox
C16_Witness ==
  \E w \in Workers :
    \E i, j \in DOMAIN fromWorker[w] :
      /\ i < j
      /\ fromWorker[w][i] = [type |-> "error", key |-> NoKey]
      /\ fromWorker[w][j].type = "geometry"

(***************************************************************************)
(* C18: setVersion(v) empties sectionMeshs, removes every former mesh from *)
(* the scene and disposes it, empties loadedChunks and                     *)
(* sectionsOutstanding, makes the coordinator active, starts the reload of *)
(* the block-state table and posts reset followed by version to every      *)
(* worker; a worker handles the reset before the version and after the     *)
(* version holds an empty replica, an empty dirty queue and no block-state *)
(* table, which only the handling of a blockStates message sets.           *)
(***************************************************************************)
C18_SetVersionStep ==
  \A v \in Versions :
    (IsCall /\ blockStateLoads'[v] = blockStateLoads[v] + 1) =>
      /\ version' = v
      /\ active'
      /\ sectionMeshs' = EmptyMap
      /\ scene' = {}
      /\ \A k \in DOMAIN sectionMeshs : sectionMeshs[k].id \in disposedMeshes'
      /\ loadedChunks' = {}
      /\ sectionsOutstanding' = {}
      /\ \A w \in SeqToSet(workers) :
           Posted(w) = << [type |-> "reset"], [type |-> "version", version |-> v] >>

C18_VersionHandled ==
  \A w \in Workers :
    /\ (HandlesMessage(w) /\ Head(toWorker[w]).type = "version") =>
         /\ wWorld'[w] = NewWorld
         /\ dirtySections'[w] = <<>>
         /\ wBlocksStates'[w] = None
    /\ (wBlocksStates[w] = None /\ wBlocksStates'[w] # None) =>
         HandlesMessage(w) /\ Head(toWorker[w]).type = "blockStates"

C18_ResetBeforeVersion ==
  \A w \in LiveWorkers :
    \A i \in DOMAIN toWorker[w] :
      toWorker[w][i].type = "version" =>
        IF i > 1 THEN toWorker[w][i - 1].type = "reset"
        ELSE /\ ~wWorld[w].exists
             /\ dirtySections[w] = <<>>
             /\ wBlocksStates[w] = None

C18_SetVersionIsFullReset ==
  /\ [](C18_ResetBeforeVersion)
  /\ [][C18_SetVersionStep /\ C18_VersionHandled]_vars

\* a second setVersion disposed the meshes of the first world, and every
\* worker has handled its reset and version and waits for the table
C18_Witness ==
  /\ active
  /\ disposedMeshes # {}
  /\ sectionMeshs = EmptyMap /\ scene = {}
  /\ loadedChunks = {}
  /\ \A w \in Workers :
       /\ toWorker[w] = <<>>
       /\ wWorld[w] = NewWorld
       /\ dirtySections[w] = <<>>
       /\ wBlocksStates[w] = None

(***************************************************************************)
(* C19: only dispose changes the set of workers: every other step, a       *)
(* resetWorld included, leaves the worker list and the workers' liveness   *)
(* as they are, and resetWorld posts its reset to every worker; dispose    *)
(* terminates every worker and empties the list; after dispose             *)
(* sectionMeshs and the scene are empty, no worker is alive, and the       *)
(* delivery of a worker message changes nothing, so no mesh is installed.  *)
(***************************************************************************)
C19_Step ==
  /\ (workersActive' = workersActive) =>
       /\ workers' = workers
       /\ terminated' = terminated
  /\ (IsCall /\ active /\ ~active' /\ workersActive') =>
       \A w \in SeqToSet(workers) :
         /\ ~terminated'[w]
         /\ Posted(w) = << [type |-> "reset"] >>
  /\ (workersActive /\ ~workersActive') =>
       /\ workers' = <<>>
       /\ \A w \in Workers : terminated'[w]
       /\ sectionMeshs' = EmptyMap
       /\ scene' = {}
  /\ \A w \in Workers :
       (Delivers(w) /\ ~workersActive) =>
         /\ sectionMeshs' = sectionMeshs
         /\ scene' = scene
         /\ nextMeshId' = nextMeshId
         /\ sectionsOutstanding' = sectionsOutstanding

C19_AfterTeardown ==
  ~workersActive =>
    /\ workers = <<>>
    /\ \A w \in Workers : terminated[w]
    /\ sectionMeshs = EmptyMap
    /\ scene = {}

C19_ResetKeepsWorkersDisposeEndsThem == [](C19_AfterTeardown) /\ [][C19_Step]_vars

\* dispose ran while a worker's geometry was on its way to the coordinator
C19_Witness ==
  /\ ~workersActive
  /\ \E w \in Workers : \E i \in DOMAIN fromWorker[w] : fromWorker[w][i].type = "geometry"

(***************************************************************************)
(* C20: no per-mesh cleanup (the replacement of a mesh in geometry         *)
(* handling, removeColumn, resetWorld) disposes the material shared by all *)
(* section meshes: dispose() is called on it by WorldRenderer.dispose()    *)
(* only, never by dispose3.                                                *)
(***************************************************************************)
C20_SharedMaterialKept == "dispose3" \notin materialDisposedBy

(***************************************************************************)
(* The shared atlas texture.                                               *)
(***************************************************************************)
\* the operations the loadTexture callback of updateTexturesData performs,
\* in program order, when texture new arrives: disposeTexture of the current
\* texture if there is one, then this.material.map = texture (a TypeError
\* when dispose() has set this.material to null) and this.currentTexture
TextureCallbackOps(cur, new, hasMaterial) ==
  (IF cur # None THEN <<[op |-> "dispose", texture |-> cur]>> ELSE <<>>)
  \o (IF hasMaterial THEN <<[op |-> "assign", texture |-> new]>>
      ELSE <<[op |-> "throw", texture |-> new]>>)

\* one operation of the callback applied to st = [map, current, disposed]
ApplyTextureOp(st, o) ==
  IF o.op = "dispose" THEN [st EXCEPT !.disposed = DisposeTexture(@, o.texture)]
  ELSE IF o.op = "assign" THEN [st EXCEPT !.map = o.texture, !.current = o.texture]
  ELSE st

\* the states the callback passes through, one after every operation
RECURSIVE TextureCallbackStates(_, _)
TextureCallbackStates(st, ops) ==
  IF ops = <<>> THEN <<>>
  ELSE LET st1 == ApplyTextureOp(st, Head(ops))
       IN <<st1>> \o TextureCallbackStates(st1, Tail(ops))

\* the loadTexture callback: a started texture load completes
TextureLoaded ==
  /\ textureLoads > 0
  /\ textureLoads' = textureLoads - 1
  /\ nextTextureId' = nextTextureId + 1
  /\ \E v \in AllVersions :
       /\ texturePending[v] > 0
       /\ texturePending' = [texturePending EXCEPT ![v] = @ - 1]
       /\ textureOf' = Append(textureOf, v)
  /\ LET ops == TextureCallbackOps(currentTexture, nextTextureId,
                                   "dispose" \notin materialDisposedBy)
         sts == TextureCallbackStates([map |-> materialMap, current |-> currentTexture,
                                       disposed |-> disposedTextures], ops)
         last == sts[Len(sts)]
     IN /\ materialMap' = last.map
        /\ currentTexture' = last.current
        /\ disposedTextures' = last.disposed
        /\ texLog' = [i \in 1 .. Len(ops) |->
                        [op |-> ops[i].op, texture |-> ops[i].texture,
                         mapDisposed |-> sts[i].map \in sts[i].disposed]]
  /\ UNCHANGED <<coordVars, waitVars, meshVars, blockStateLoads, workerVars,
                 chanVars, histVars, everLoaded, unitVars>>

\* the column the environment of the texture specification loads
TexColumns == {<<0, 0>>}

TexCalls ==
  \/ \E v \in Versions : SetVersion(v)
  \/ ResetWorld
  \/ Dispose
  \/ \E c \in TexColumns : \E chunk \in ChunkPayloads(c) : AddColumn(c[1], c[2], chunk)
  \/ \E c \in TexColumns : RemoveColumn(c[1], c[2])

TexNext == TexCalls \/ TextureLoaded \/ SystemNext

\* the pipeline with the texture loads of updateTexturesData completing
SpecTex == Init /\ [][TexNext]_vars

\* the step disposes a texture or changes material.map
TextureTouched == disposedTextures' # disposedTextures \/ materialMap' # materialMap
\* the step is the loadTexture callback / the first WorldRenderer.dispose()
IsTextureSwap == textureLoads' = textureLoads - 1
IsDispose == workersActive /\ ~workersActive'
\* the step calls dispose3 on a section mesh
DisposesMesh == disposedMeshes' # disposedMeshes

\* C21: the atlas texture is disposed, and material.map changed, only by the
\* loadTexture callback of updateTexturesData or by WorldRenderer.dispose();
\* a step of geometry handling, removeColumn or resetWorld that disposes a
\* section mesh leaves the disposed textures and material.map as they were
C21_Step ==
  /\ TextureTouched => IsTextureSwap \/ IsDispose
  /\ DisposesMesh /\ ~IsDispose => UNCHANGED <<disposedTextures, materialMap>>
C21_TextureKeptByMeshCleanup == [][C21_Step]_vars
\* a section mesh has been disposed while the atlas texture is installed
C21_Witness ==
  /\ disposedMeshes # {}
  /\ workersActive
  /\ currentTexture # None
  /\ materialMap = currentTexture
  /\ currentTexture \notin disposedTextures

\* C22: when a loaded texture replaces the current one, the loadTexture
\* callback assigns the new texture to material.map before it disposes the
\* previous texture, so after no operation of the callback does material.map
\* hold a disposed texture
C22_NewMapBeforeOldDisposed ==
  \A i \in DOMAIN texLog :
    /\ ~texLog[i].mapDisposed
    /\ texLog[i].op = "dispose" =>
         \E j \in 1 .. (i - 1) : texLog[j].op = "assign"

(***************************************************************************)
(* LRUCache.  The cache is the Map's entries in insertion order.           *)
(***************************************************************************)
CacheSizes == 0 .. MaxCacheSize
CacheKeys == 1 .. MaxCacheKey
CacheValues == 1 .. MaxCacheValue

\* Map.has, Map.get, Map.delete, Map.keys().next().value
Has(c, k) == \E i \in DOMAIN c : c[i].key = k
ValueOf(c, k) == LET i == CHOOSE i \in DOMAIN c : c[i].key = k IN c[i].value
Without(c, k) == SelectSeq(c, LAMBDA e : e.key # k)
FirstKey(c) == IF c = <<>> THEN None ELSE c[1].key
Keys(c) == {c[i].key : i \in DOMAIN c}

\* LRUCache.get on a hit: delete the key and insert it again
AfterGetMutant(c, k) == c
AfterGet(c, k) ==
  IF ~Has(c, k) THEN c
  ELSE Append(Without(c, k), [key |-> k, value |-> ValueOf(c, k)])

\* LRUCache.set with maxSize n
AfterSet(c, n, k, v) ==
  LET c1 == IF Has(c, k) THEN Without(c, k)
            ELSE IF Len(c) >= n THEN Without(c, FirstKey(c))
            ELSE c
  IN Append(c1, [key |-> k, value |-> v])

\* the keys in the order they were last touched, after key k is touched and
\* the cache has become c
Touch(order, c, k) ==
  Append(SelectSeq(order, LAMBDA x : x \in Keys(c) /\ x # k), k)

CacheGet(k) ==
  /\ cache' = AfterGet(cache, k)
  /\ touchOrder' = IF Has(cache, k) THEN Touch(touchOrder, cache', k) ELSE touchOrder
  /\ cacheOp' = [op |-> "get", key |-> k,
                 value |-> IF Has(cache, k) THEN ValueOf(cache, k) ELSE None,
                 found |-> Has(cache, k), evicted |-> None]
  /\ UNCHANGED <<coordVars, waitVars, meshVars, blockStateLoads, workerVars,
                 chanVars, histVars, everLoaded, texVars, cullVars, maxSize, worldVars, moreVars>>

CacheSet(k, v) ==
  /\ cache' = AfterSet(cache, maxSize, k, v)
  /\ touchOrder' = Touch(touchOrder, cache', k)
  /\ cacheOp' = [op |-> "set", key |-> k, value |-> v, found |-> Has(cache, k),
                 evicted |-> LET gone == Keys(cache) \ Keys(cache')
                             IN IF gone = {} THEN None ELSE CHOOSE x \in gone : TRUE]
  /\ UNCHANGED <<coordVars, waitVars, meshVars, blockStateLoads, workerVars,
                 chanVars, histVars, everLoaded, texVars, cullVars, maxSize, worldVars, moreVars>>

CacheHas(k) ==
  /\ cacheOp' = [op |-> "has", key |-> k, value |-> None, found |-> Has(cache, k),
                 evicted |-> None]
  /\ UNCHANGED <<coordVars, waitVars, meshVars, blockStateLoads, workerVars,
                 chanVars, histVars, everLoaded, texVars, cullVars, maxSize, cache,
                 touchOrder, worldVars, moreVars>>

CacheDelete(k) ==
  /\ cache' = Without(cache, k)
  /\ touchOrder' = SelectSeq(touchOrder, LAMBDA x : x # k)
  /\ cacheOp' = [op |-> "delete", key |-> k, value |-> None, found |-> Has(cache, k),
                 evicted |-> None]
  /\ UNCHANGED <<coordVars, waitVars, meshVars, blockStateLoads, workerVars,
                 chanVars, histVars, everLoaded, texVars, cullVars, maxSize, worldVars, moreVars>>

CacheClear ==
  /\ cache' = <<>>
  /\ touchOrder' = <<>>
  /\ cacheOp' = [op |-> "clear", key |-> None, value |-> None, found |-> FALSE,
                 evicted |-> None]
  /\ UNCHANGED <<coordVars, waitVars, meshVars, blockStateLoads, workerVars,
                 chanVars, histVars, everLoaded, texVars, cullVars, maxSize, worldVars, moreVars>>

CacheInit ==
  RendererInit /\ (\E n \in CacheSizes : NewCache(n)) /\ NewUnitWorld /\ MoreInit

CacheNext ==
  \/ \E k \in CacheKeys : CacheGet(k)
  \/ \E k \in CacheKeys : \E v \in CacheValues : CacheSet(k, v)
  \/ \E k \in CacheKeys : CacheHas(k)
  \/ \E k \in CacheKeys : CacheDelete(k)
  \/ CacheClear

\* an LRUCache of any capacity under any sequence of its operations
SpecCache == CacheInit /\ [][CacheNext]_vars

\* C23: after any sequence of get, set, has, delete and clear the cache holds
\* at most maxSize entries
C23_SizeWithinCapacity == Len(cache) <= maxSize

\* the step is set(k, v) of a key not in the cache / of a key in the cache
SetsNewKey(k, v) == cacheOp' = [op |-> "set", key |-> k, value |-> v, found |-> FALSE,
                                evicted |-> cacheOp'.evicted]
SetsOldKey(k, v) == cacheOp'.op = "set" /\ cacheOp'.key = k /\ cacheOp'.value = v
                    /\ Has(cache, k)
\* every entry of the cache before the step other than those of keys gone is
\* in the cache after it with the value it had
KeepsAllBut(gone) ==
  \A x \in Keys(cache) \ gone : Has(cache', x) /\ ValueOf(cache', x) = ValueOf(cache, x)
\* set of a key not in a cache that holds maxSize entries removes exactly the
\* least recently touched entry and keeps every other
EvictsLeastRecentlyTouched(k, v) ==
  /\ \E victim \in Keys(cache) :
       /\ victim = Head(touchOrder)
       /\ Keys(cache') = (Keys(cache) \ {victim}) \cup {k}
       /\ KeepsAllBut({victim})
  /\ ValueOf(cache', k) = v
\* set of a key in the cache removes no entry, replaces the value of the key
\* and makes the key the most recently touched
ReplacesValue(k, v) ==
  /\ Keys(cache') = Keys(cache)
  /\ KeepsAllBut({k})
  /\ ValueOf(cache', k) = v
  /\ touchOrder'[Len(touchOrder')] = k
  /\ cache'[Len(cache')].key = k

\* C24 as stated: for every capacity, set of a key not in the cache while
\* the cache holds maxSize entries removes exactly one entry, the one least
\* recently touched (by a get that hit or a set; has does not touch), and
\* keeps every other; set of a key in the cache removes none, replaces its
\* value and makes it the most recently touched
C24_StepAsStated ==
  \A k \in CacheKeys : \A v \in CacheValues :
    /\ SetsNewKey(k, v) /\ Len(cache) = maxSize => EvictsLeastRecentlyTouched(k, v)
    /\ SetsOldKey(k, v) => ReplacesValue(k, v)
C24_AsStated == [][C24_StepAsStated]_vars

\* C24 for capacities of at least one entry: the same statement, for an
\* LRUCache whose maxSize is 1 or more
C24_Step ==
  \A k \in CacheKeys : \A v \in CacheValues :
    /\ SetsNewKey(k, v) /\ Len(cache) = maxSize /\ maxSize >= 1 =>
         EvictsLeastRecentlyTouched(k, v)
    /\ SetsOldKey(k, v) => ReplacesValue(k, v)
C24_EvictsLeastRecentlyTouched == [][C24_Step]_vars
\* a set of a new key on a full cache of two entries has evicted one entry
\* and kept the other
C24_Witness ==
  /\ maxSize = 2
  /\ cacheOp.op = "set"
  /\ cacheOp.evicted # None
  /\ Len(cache) = 2
  /\ cache[1].key < cacheOp.evicted
  /\ cacheOp.evicted < cacheOp.key

(***************************************************************************)
(* World on its own, with its block cache.                                 *)
(***************************************************************************)
\* the columns and the block positions of the environment of a World
UnitColumns == {<<-16, -16>>, <<0, 0>>}
UnitPositions == {<<-1, 1, -1>>, <<-16, 1, -16>>, <<0, 1, 0>>, <<15, 1, 15>>}
UnitStateIds == 1 .. MaxUnitStateId

\* the column whose 16 x 16 area contains position p
Contains(col, p) ==
  /\ col[1] <= p[1] /\ p[1] < col[1] + 16
  /\ col[2] <= p[3] /\ p[3] < col[2] + 16
ColumnContaining(p) == CHOOSE col \in UnitColumns : Contains(col, p)

\* the chunk payloads handed to World.addColumn: section 0 present, all
\* blocks air
UnitPayloads(col) ==
  {[sections |-> 0 .. (MaxLevels - 1),
    blocks |-> [q \in {InChunk(col, p) : p \in {u \in UnitPositions : Contains(col, u)}}
                  |-> 0]]}

\* the key under which getBlock looks a block up in blockCache
BlockCacheKeyMutant(stateId, locInChunk) == None
BlockCacheKey(stateId, locInChunk) == stateId

\* block.position = loc on the object cached under k
Positioned(c, k, pos) ==
  [i \in DOMAIN c |-> IF c[i].key = k THEN [c[i] EXCEPT !.value.position = pos] ELSE c[i]]

\* World.getBlock: the block returned, the block cache after the call and the
\* LRUCache methods called
WorldGetBlock(world, bc, pos) ==
  LET key == columnKey(Floor16(pos[1]), Floor16(pos[3]))
  IN IF key \notin DOMAIN world.columns
     THEN [block |-> NoBlock, cache |-> bc, calls |-> <<>>]
     ELSE LET locInChunk == PosInChunk(pos)
              stateId == world.columns[key].blocks[locInChunk]
              k == BlockCacheKey(stateId, locInChunk)
              b == [stateId |-> stateId, position |-> pos]
              cached == IF Has(bc, k) THEN ValueOf(bc, k) ELSE b
          IN [block |-> [found |-> TRUE, stateId |-> cached.stateId, position |-> pos],
              cache |-> IF Has(bc, k) THEN Positioned(AfterGet(bc, k), k, pos)
                        ELSE AfterSet(bc, MaxBlockCache, k, b),
              calls |-> IF Has(bc, k) THEN <<"get">> ELSE <<"get", "set">>]

\* World.setBlockStateId returns true
WorldSetBlockStateIdOk(world, pos) ==
  columnKey(Floor16(pos[1]), Floor16(pos[3])) \in DOMAIN world.columns

UnitAddColumn(col, json) ==
  /\ uWorld' = WorldAddColumn(uWorld, col[1], col[2], json)
  /\ worldOp' = [op |-> "addColumn", pos |-> <<col[1], 0, col[2]>>, block |-> NoBlock,
                 ok |-> TRUE, calls |-> <<>>]
  /\ lastWritten' = MapDelAll(lastWritten, {p \in UnitPositions : Contains(col, p)})
  /\ UNCHANGED <<coordVars, waitVars, meshVars, blockStateLoads, workerVars,
                 chanVars, histVars, everLoaded, texVars, cullVars, cacheVars, blockCache, moreVars>>

UnitRemoveColumn(col) ==
  /\ uWorld' = WorldRemoveColumn(uWorld, col[1], col[2])
  /\ worldOp' = [op |-> "removeColumn", pos |-> <<col[1], 0, col[2]>>, block |-> NoBlock,
                 ok |-> TRUE, calls |-> <<>>]
  /\ lastWritten' = MapDelAll(lastWritten, {p \in UnitPositions : Contains(col, p)})
  /\ UNCHANGED <<coordVars, waitVars, meshVars, blockStateLoads, workerVars,
                 chanVars, histVars, everLoaded, texVars, cullVars, cacheVars, blockCache, moreVars>>

UnitSetBlockStateId(pos, stateId) ==
  /\ uWorld' = WorldSetBlockStateId(uWorld, pos, stateId)
  /\ worldOp' = [op |-> "setBlockStateId", pos |-> pos, block |-> NoBlock,
                 ok |-> WorldSetBlockStateIdOk(uWorld, pos), calls |-> <<>>]
  /\ lastWritten' = IF WorldSetBlockStateIdOk(uWorld, pos)
                    THEN MapPut(lastWritten, pos, stateId) ELSE lastWritten
  /\ UNCHANGED <<coordVars, waitVars, meshVars, blockStateLoads, workerVars,
                 chanVars, histVars, everLoaded, texVars, cullVars, cacheVars, blockCache, moreVars>>

\* the descriptor a caller kept, after a getBlock(pos) with result r: the
\* call writes pos to the object it returns, which is the kept object when
\* that is still cached under the key looked up; an evicted object is no
\* longer reached by getBlock
HeldAfter(h, r, pos) ==
  IF ~h.has \/ ~h.shared \/ ~r.block.found THEN h
  ELSE IF r.calls = <<"get">> /\ BlockCacheKey(r.block.stateId, PosInChunk(pos)) = h.key
       THEN [h EXCEPT !.position = pos]
       ELSE IF h.key \notin Keys(r.cache) THEN [h EXCEPT !.shared = FALSE]
       ELSE h

\* World.getBlock(pos); keep: the caller keeps the descriptor returned
UnitGetBlock(pos, keep) ==
  /\ LET r == WorldGetBlock(uWorld, blockCache, pos)
     IN /\ blockCache' = r.cache
        /\ worldOp' = [op |-> "getBlock", pos |-> pos, block |-> r.block,
                       ok |-> r.block.found, calls |-> r.calls]
        /\ held' = IF keep /\ r.block.found
                   THEN [has |-> TRUE,
                         key |-> BlockCacheKey(r.block.stateId, PosInChunk(pos)),
                         shared |-> TRUE, returned |-> pos, position |-> pos]
                   ELSE HeldAfter(held, r, pos)
  /\ UNCHANGED <<coordVars, waitVars, meshVars, blockStateLoads, workerVars,
                 chanVars, histVars, everLoaded, texVars, cullVars, cacheVars, uWorld,
                 lastWritten, rateVars, urlVars, d3Vars>>

WorldNext ==
  \/ \E col \in UnitColumns : \E json \in UnitPayloads(col) : UnitAddColumn(col, json)
  \/ \E col \in UnitColumns : UnitRemoveColumn(col)
  \/ \E pos \in UnitPositions : \E s \in UnitStateIds : UnitSetBlockStateId(pos, s)
  \/ \E pos \in UnitPositions : UnitGetBlock(pos, FALSE)

\* a World under any sequence of its operations
SpecWorld == Init /\ [][WorldNext]_vars

\* the column containing the position of the step's operation is loaded
UnitLoaded(pos) == ColumnContaining(pos) \in DOMAIN uWorld.columns
\* the step is the given operation on the World
IsWorldOp(op, pos) == worldOp'.op = op /\ worldOp'.pos = pos

\* C25: getBlock returns null and setBlockStateId returns false when the
\* column owning pos is not loaded, and then no column is created or changed
\* and the block cache is neither read nor written; on a loaded column
\* setBlockStateId stores the state at pos and returns true; removeColumn of
\* a column that is not loaded changes nothing
C25_Step ==
  /\ \A pos \in UnitPositions :
       /\ IsWorldOp("getBlock", pos) /\ ~UnitLoaded(pos) =>
            /\ worldOp'.block = NoBlock
            /\ worldOp'.calls = <<>>
            /\ UNCHANGED <<uWorld, blockCache>>
       /\ IsWorldOp("setBlockStateId", pos) /\ ~UnitLoaded(pos) =>
            /\ ~worldOp'.ok
            /\ worldOp'.calls = <<>>
            /\ UNCHANGED <<uWorld, blockCache>>
       /\ IsWorldOp("setBlockStateId", pos) /\ UnitLoaded(pos) =>
            /\ worldOp'.ok
            /\ \E s \in UnitStateIds :
                 /\ lastWritten'[pos] = s
                 /\ LET col == ColumnContaining(pos)
                    IN uWorld'.columns[col].blocks[InChunk(col, pos)] = s
  /\ \A col \in UnitColumns :
       IsWorldOp("removeColumn", <<col[1], 0, col[2]>>) /\ col \notin DOMAIN uWorld.columns =>
         UNCHANGED <<uWorld, blockCache>>
C25_UnloadedColumnFailsSoft == [][C25_Step]_vars
\* a getBlock and a setBlockStateId on an unloaded column have failed while
\* the block cache holds an entry and the other column is loaded
C25_Witness ==
  /\ worldOp.op \in {"getBlock", "setBlockStateId"}
  /\ ~worldOp.ok
  /\ ~UnitLoaded(worldOp.pos)
  /\ DOMAIN uWorld.columns # {}
  /\ blockCache # <<>>

\* C26: when the last operation that affected a position was a successful
\* setBlockStateId(p, s), getBlock(p) returns the block of state s, whatever
\* the block cache holds or has evicted
C26_LastWriteWins ==
  worldOp.op = "getBlock" /\ worldOp.pos \in DOMAIN lastWritten =>
    /\ worldOp.block.found
    /\ worldOp.block.stateId = lastWritten[worldOp.pos]
    /\ worldOp.block.position = worldOp.pos
\* getBlock has returned the second state written to a position of negative
\* coordinates, from a full block cache
C26_Witness ==
  /\ worldOp.op = "getBlock"
  /\ worldOp.pos = <<-1, 1, -1>>
  /\ worldOp.pos \in DOMAIN lastWritten
  /\ lastWritten[worldOp.pos] = 2
  /\ worldOp.calls = <<"get", "set">>
  /\ \E q \in DOMAIN lastWritten : lastWritten[q] = 1
  /\ Len(blockCache) = MaxBlockCache

Coords == (-MaxCoord) .. MaxCoord

\* o is the origin of the 16-wide interval that contains coordinate c
IsOriginOf(o, c) == o % 16 = 0 /\ o <= c /\ c < o + 16

\* C29: for every integer coordinate c, negative ones included, the origin
\* Math.floor(c / 16) * 16 is the origin of the interval containing c, the
\* offset c & 15 lies in 0 .. 15 and origin + offset = c (c = -1: origin -16,
\* offset 15); the section key of the coordinator and of the worker is made
\* of these origins, and World.setBlockStateId and World.getBlock write and
\* read a block in the column that contains it, at its offset in that column
C29_FloorAndMask ==
  /\ \A c \in Coords :
       /\ IsOriginOf(Floor16(c), c)
       /\ And15(c) \in 0 .. 15
       /\ Floor16(c) + And15(c) = c
  /\ Floor16(-1) = -16 /\ And15(-1) = 15
  /\ \A p \in UnitPositions :
       /\ \A i \in 1 .. 3 : IsOriginOf(SectionKeyOf(p)[i], p[i])
       /\ Hash(p, NumWorkers) = Hash(SectionKeyOf(p), NumWorkers)
  /\ \A p \in DOMAIN lastWritten :
       LET col == ColumnContaining(p)
       IN /\ col \in DOMAIN uWorld.columns
          /\ uWorld.columns[col].blocks[InChunk(col, p)] = lastWritten[p]
  /\ worldOp.op = "getBlock" /\ worldOp.block.found =>
       LET col == ColumnContaining(worldOp.pos)
       IN /\ col \in DOMAIN uWorld.columns
          /\ worldOp.block.stateId = uWorld.columns[col].blocks[InChunk(col, worldOp.pos)]
\* a block written at the origin of a column of negative coordinates has
\* been read back while another block of that column holds another state
C29_Witness ==
  /\ worldOp.op = "getBlock"
  /\ worldOp.pos = <<-16, 1, -16>>
  /\ worldOp.block.found
  /\ worldOp.block.stateId = 1
  /\ <<-1, 1, -1>> \in DOMAIN lastWritten
  /\ lastWritten[<<-1, 1, -1>>] = 2

\* C28: removeColumn(x, z) of a column that addColumn was never called for
\* leaves sectionsOutstanding as it was before the call, also while marks
\* made for neighbouring columns are outstanding
C28_Step ==
  IsCall =>
    \A w \in Workers :
      (/\ Posted(w) # <<>>
       /\ Posted(w)[1].type = "unloadChunk"
       /\ columnKey(Posted(w)[1].x, Posted(w)[1].z) \notin everLoaded) =>
        sectionsOutstanding' = sectionsOutstanding
MarkCalls ==
  \/ \E v \in Versions : SetVersion(v)
  \/ \E c \in Columns : \E chunk \in ChunkPayloads(c) : AddColumn(c[1], c[2], chunk)
  \/ \E pos \in MarkPositions : \E s \in StateIds : SetBlockStateId(pos, s)

MarkNext == MarkCalls \/ ClearPendingDirtySections \/ SystemNext

\* the pipeline with block updates at positions on the faces of sections
SpecMarks == Init /\ [][MarkNext]_vars

\* the offset of a coordinate from the origin of its section
LocalOf(c) == c - Floor16(c)

\* the sections a block update at pos has to mark: its own, and on every
\* axis the neighbour below when the offset is 0 and above when it is 15
SectionsToMark(pos) ==
  {SectionKeyOf(pos)}
  \cup (IF LocalOf(pos[1]) = 0 THEN {SectionKeyOf(Offset(pos, -16, 0, 0))} ELSE {})
  \cup (IF LocalOf(pos[1]) = 15 THEN {SectionKeyOf(Offset(pos, 16, 0, 0))} ELSE {})
  \cup (IF LocalOf(pos[2]) = 0 THEN {SectionKeyOf(Offset(pos, 0, -16, 0))} ELSE {})
  \cup (IF LocalOf(pos[2]) = 15 THEN {SectionKeyOf(Offset(pos, 0, 16, 0))} ELSE {})
  \cup (IF LocalOf(pos[3]) = 0 THEN {SectionKeyOf(Offset(pos, 0, 0, -16))} ELSE {})
  \cup (IF LocalOf(pos[3]) = 15 THEN {SectionKeyOf(Offset(pos, 0, 0, 16))} ELSE {})

\* the sections named by the dirty messages the step posts
DirtyPosted ==
  {SectionKeyOf(m.pos) :
     m \in UNION {{Posted(w)[i] : i \in {j \in DOMAIN Posted(w) : Posted(w)[j].type = "dirty"}} :
                    w \in Workers}}

\* C27: setBlockStateId(pos, id) on an active coordinator marks dirty the
\* section of pos and, on each axis, the neighbour on the low side exactly
\* when the offset of pos is 0 and on the high side exactly when it is 15,
\* and no other section: every such section is pending after the call, no
\* other section becomes pending or outstanding, and the dirty messages
\* posted are those of the sections not already pending in this frame
C27_Step ==
  (IsCall /\ active /\ workers # <<>>) =>
    \A w \in Workers :
      (Posted(w) # <<>> /\ Posted(w)[1].type = "blockUpdate") =>
        LET marks == SectionsToMark(Posted(w)[1].pos)
        IN /\ marks \subseteq pendingDirtySections'
           /\ pendingDirtySections' \ pendingDirtySections \subseteq marks
           /\ sectionsOutstanding' = sectionsOutstanding \cup (marks \ pendingDirtySections)
           /\ DirtyPosted = marks \ pendingDirtySections
C27_NeighbourMarks == [][C27_Step]_vars
\* block updates of negative coordinates on the low and on the high faces have
\* marked the neighbours -32,0,0 and -16,-16,0 and the section 0,0,0
C27_Witness ==
  /\ active
  /\ {<<-32, 0, 0>>, <<-16, -16, 0>>, <<-16, 0, 16>>, <<0, 0, 0>>, <<-16, 0, -16>>}
       \subseteq pendingDirtySections

(***************************************************************************)
(* Frustum culling.                                                        *)
(***************************************************************************)
\* the ids of the meshes in sectionMeshs
TrackedIds == {m.id : m \in MeshesAt(DOMAIN sectionMeshs)}

\* updateFrustumCulling does not return at its first line
CullingRunsMutant(enabled, camera) == camera
CullingRuns(enabled, camera) == enabled /\ camera

\* WorldRenderer.updateFrustumCulling(camera), called by Viewer.update;
\* inFrustum: the tracked meshes whose bounding sphere intersects the frustum
UpdateFrustumCulling(camera, inFrustum) ==
  /\ inFrustum \subseteq TrackedIds
  /\ IF CullingRuns(frustumCullingEnabled, camera)
     THEN /\ hiddenMeshes' = (hiddenMeshes \ TrackedIds) \cup (TrackedIds \ inFrustum)
          /\ visibleMeshCount' = Cardinality(inFrustum)
          /\ totalMeshCount' = Cardinality(TrackedIds)
     ELSE UNCHANGED <<hiddenMeshes, visibleMeshCount, totalMeshCount>>
  /\ UNCHANGED <<coordVars, waitVars, meshVars, blockStateLoads, workerVars,
                 chanVars, histVars, everLoaded, texVars, frustumCullingEnabled,
                 cacheVars, worldVars, moreVars>>

\* WorldRenderer.setFrustumCulling(enabled)
SetFrustumCulling(enabled) ==
  /\ frustumCullingEnabled' = enabled
  /\ hiddenMeshes' = IF ~enabled THEN hiddenMeshes \ TrackedIds ELSE hiddenMeshes
  /\ UNCHANGED <<coordVars, waitVars, meshVars, blockStateLoads, workerVars,
                 chanVars, histVars, everLoaded, texVars, visibleMeshCount,
                 totalMeshCount, cacheVars, worldVars, moreVars>>

CullCalls ==
  \/ \E v \in Versions : SetVersion(v)
  \/ \E c \in Columns : \E chunk \in {j \in ChunkPayloads(c) : j.sections # {}} :
       AddColumn(c[1], c[2], chunk)
  \/ \E enabled \in BOOLEAN : SetFrustumCulling(enabled)
  \/ \E camera \in BOOLEAN : \E inFrustum \in SUBSET TrackedIds :
       UpdateFrustumCulling(camera, inFrustum)

CullNext == CullCalls \/ ClearPendingDirtySections \/ SystemNext

\* the pipeline with frustum culling switched and updated
SpecCull == Init /\ [][CullNext]_vars

\* C30: whenever frustum culling is disabled every tracked section mesh is
\* visible (setFrustumCulling(false) shows all meshes, meshes installed later
\* are visible), and while it stays disabled no step changes a mesh's
\* visibility or the visible / total counters; when culling is enabled, after
\* each update that ran visibleMeshCount <= totalMeshCount and
\* totalMeshCount is the number of tracked meshes
C30_AllVisibleWhenDisabled == ~frustumCullingEnabled => hiddenMeshes \cap TrackedIds = {}
C30_Step ==
  /\ ~frustumCullingEnabled /\ ~frustumCullingEnabled' =>
       UNCHANGED <<hiddenMeshes, visibleMeshCount, totalMeshCount>>
  /\ (/\ frustumCullingEnabled /\ frustumCullingEnabled'
      /\ <<hiddenMeshes, visibleMeshCount, totalMeshCount>>'
           # <<hiddenMeshes, visibleMeshCount, totalMeshCount>>) =>
       /\ visibleMeshCount' <= totalMeshCount'
       /\ totalMeshCount' = Cardinality(TrackedIds')
       /\ visibleMeshCount' = Cardinality(TrackedIds' \ hiddenMeshes')
C30_FrustumCulling == [](C30_AllVisibleWhenDisabled) /\ [][C30_Step]_vars
\* culling was disabled after an update had hidden one of two tracked meshes
C30_Witness ==
  /\ ~frustumCullingEnabled
  /\ Cardinality(TrackedIds) = 2
  /\ totalMeshCount = 2
  /\ visibleMeshCount = 1
  /\ hiddenMeshes \cap TrackedIds = {}

(***************************************************************************)
(* The rateLimit middleware (lib/common.js) on its own.                    *)
(***************************************************************************)
\* now > record.resetTime
Expired(t, resetTime) == t > resetTime

\* what the middleware does with a request of ip: the record it leaves and
\* whether it calls next()
RateOutcome(ip) ==
  LET record == requests[ip]
      fresh == [has |-> TRUE, count |-> 1, resetTime |-> now + windowMs]
  IN IF ~record.has THEN [record |-> fresh, passed |-> TRUE]
     ELSE IF Expired(now, record.resetTime) THEN [record |-> fresh, passed |-> TRUE]
     ELSE IF record.count >= maxRequests THEN [record |-> record, passed |-> FALSE]
     ELSE [record |-> [record EXCEPT !.count = @ + 1], passed |-> TRUE]

\* the window of ip that began with its first admitted request is still open
InWindow(ip) == winStart[ip] # -1 /\ now <= winStart[ip] + windowMs

\* the middleware function returned by rateLimit, called for a request of ip
RateRequest(ip) ==
  /\ LET r == RateOutcome(ip)
     IN /\ requests' = [requests EXCEPT ![ip] = r.record]
        /\ rateOp' = [op |-> "request", ip |-> ip,
                      status |-> IF r.passed THEN 0 ELSE 429,
                      error |-> IF r.passed THEN "" ELSE "Too many requests",
                      passed |-> r.passed]
        /\ winStart' = IF r.passed /\ ~InWindow(ip)
                       THEN [winStart EXCEPT ![ip] = now] ELSE winStart
        /\ winPassed' = IF ~r.passed THEN winPassed
                        ELSE IF InWindow(ip) THEN [winPassed EXCEPT ![ip] = @ + 1]
                        ELSE [winPassed EXCEPT ![ip] = 1]
  /\ UNCHANGED <<exceptRate, windowMs, maxRequests, now>>

\* a millisecond passes
RateTick ==
  /\ now < MaxTime
  /\ now' = now + 1
  /\ rateOp' = [op |-> "tick", ip |-> "", status |-> 0, error |-> "", passed |-> FALSE]
  /\ UNCHANGED <<exceptRate, windowMs, maxRequests, requests, winStart, winPassed>>

\* the setInterval callback: it runs no earlier than windowMs after creation
RateCleanup ==
  /\ now >= windowMs
  /\ requests' = [ip \in IPs |->
                    IF requests[ip].has /\ Expired(now, requests[ip].resetTime)
                    THEN [has |-> FALSE, count |-> 0, resetTime |-> 0]
                    ELSE requests[ip]]
  /\ rateOp' = [op |-> "cleanup", ip |-> "", status |-> 0, error |-> "", passed |-> FALSE]
  /\ UNCHANGED <<exceptRate, windowMs, maxRequests, now, winStart, winPassed>>

RateInit ==
  /\ RendererInit /\ NewCache(1) /\ NewUnitWorld
  /\ \E w \in 1 .. MaxWindow : \E m \in 0 .. MaxRate : NewRateLimit(w, m)
  /\ NoUrlCall /\ held = NotHeld /\ Groups

RateNext ==
  \/ \E ip \in IPs : RateRequest(ip)
  \/ RateTick
  \/ RateCleanup

\* a rateLimit middleware of any options under requests of two clients
SpecRate == RateInit /\ [][RateNext]_vars

\* the step is the middleware handling a request of ip
IsRequest(ip) == rateOp'.op = "request" /\ rateOp'.ip = ip

\* C31: for each client separately, within one window (from its first admitted
\* request, lasting windowMs) at most maxRequests requests are passed to
\* next(); every further request in the window is answered 429 'Too many
\* requests' and not passed on; requests of other clients never change a
\* client's count; the first request after the window expired is admitted and
\* starts a new window with count 1
C31_AtMostMaxRequests == \A ip \in IPs : winPassed[ip] <= maxRequests
C31_Step ==
  \A ip \in IPs : IsRequest(ip) =>
    /\ (InWindow(ip) /\ winPassed[ip] >= maxRequests) =>
         /\ ~rateOp'.passed
         /\ rateOp'.status = 429
         /\ rateOp'.error = "Too many requests"
    /\ (InWindow(ip) /\ winPassed[ip] < maxRequests) => rateOp'.passed
    /\ ~InWindow(ip) =>
         /\ rateOp'.passed
         /\ requests'[ip].count = 1
         /\ requests'[ip].resetTime = now + windowMs
    /\ \A other \in IPs \ {ip} : requests'[other] = requests[other]
C31_RateLimit == [](C31_AtMostMaxRequests) /\ [][C31_Step]_vars

(***************************************************************************)
(* The URL validator (lib/security/urlValidator.js) on its own.            *)
(***************************************************************************)
\* String.prototype.toLowerCase on a label, and on a host
LowerLabel(t) ==
  CASE t = "LOCALHOST" -> "localhost"
    [] t = "EVIL" -> "evil"
    [] OTHER -> t
ToLowerCase(h) == [i \in 1 .. Len(h) |-> LowerLabel(h[i])]

\* parsedUrl.hostname of new URL(targetUrl): the host of an http, https or
\* ftp URL is lower-cased, a number is read as an IPv4 address and written in
\* dotted form, an IPv6 address keeps its square brackets
Hostname(written) ==
  IF written = <<"2130706433">> THEN <<"127", ".", "0", ".", "0", ".", "1">>
  ELSE ToLowerCase(written)

\* h begins with the labels and separators of pre
StartsWith(h, pre) == Len(h) >= Len(pre) /\ SubSeq(h, 1, Len(pre)) = pre
\* h.endsWith('.' + d)
EndsWithDot(h, d) ==
  /\ Len(h) > Len(d)
  /\ SubSeq(h, Len(h) - Len(d), Len(h)) = <<".">> \o d

BLOCKED_HOSTNAMES ==
  {<<"localhost">>, <<"localhost", ".", "localdomain">>,
   <<"0", ".", "0", ".", "0", ".", "0">>, <<"[", ":", ":", "]">>,
   <<"[", ":", ":", "1", "]">>}

\* the second number of /^172\.(1[6-9]|2[0-9]|3[0-1])\./
ClassB == {"16", "17", "18", "19", "20", "21", "22", "23", "24", "25", "26", "27",
           "28", "29", "30", "31"}

\* some regular expression of PRIVATE_IP_RANGES matches ip
PRIVATE_IP_RANGES(ip) ==
  \/ StartsWith(ip, <<"127", ".">>)
  \/ StartsWith(ip, <<"10", ".">>)
  \/ /\ StartsWith(ip, <<"172", ".">>)
     /\ Len(ip) >= 4 /\ ip[3] \in ClassB /\ ip[4] = "."
  \/ StartsWith(ip, <<"192", ".", "168", ".">>)
  \/ StartsWith(ip, <<"169", ".", "254", ".">>)
  \/ ip = <<":", ":", "1">>
  \/ StartsWith(ip, <<"fc00", ":">>)
  \/ StartsWith(ip, <<"fe80", ":">>)
  \/ StartsWith(ip, <<"0", ".">>)
  \/ StartsWith(ip, <<"224", ".">>)
  \/ StartsWith(ip, <<"240", ".">>)
  \/ StartsWith(ip, <<"255", ".">>)

isPrivateIP(ip) ==
  \/ ip = <<>>
  \/ ToLowerCase(ip) \in BLOCKED_HOSTNAMES
  \/ PRIVATE_IP_RANGES(ip)

\* lowerHostname === d.toLowerCase() || lowerHostname.endsWith('.' + d.toLowerCase())
DomainMatches(lowerHostname, d) ==
  lowerHostname = ToLowerCase(d) \/ EndsWithDot(lowerHostname, ToLowerCase(d))

Rejected(why) == [op |-> "validateUrl", valid |-> FALSE, error |-> why, private |-> FALSE]

validateUrl(in) ==
  LET hostname == Hostname(in.host)
      lowerHostname == ToLowerCase(hostname)
  IN IF in.form = "empty" THEN Rejected("URL is required and must be a string")
     ELSE IF in.form = "malformed" THEN Rejected("Invalid URL format")
     ELSE IF in.protocol \notin in.allowedProtocols THEN Rejected("Protocol is not allowed")
     ELSE IF isPrivateIP(hostname)
       THEN Rejected("Access to internal network addresses is not allowed")
     ELSE IF \E blocked \in in.blockedDomains : DomainMatches(lowerHostname, blocked)
       THEN Rejected("Domain is blocked")
     ELSE IF /\ in.allowedDomains # {}
             /\ ~\E allowed \in in.allowedDomains : DomainMatches(lowerHostname, allowed)
       THEN Rejected("Domain is not in the allowed list")
     ELSE IF in.credentials
       THEN Rejected("URLs with embedded credentials are not allowed")
     ELSE [op |-> "validateUrl", valid |-> TRUE, error |-> "", private |-> FALSE]

\* validateUrl(targetUrl, options)
CallValidateUrl ==
  /\ urlOut' = validateUrl(urlIn)
  /\ UNCHANGED <<exceptUrl, urlIn>>

\* isPrivateIP(ip) with the host as written
CallIsPrivateIP ==
  /\ urlOut' = [op |-> "isPrivateIP", valid |-> FALSE, error |-> "",
                private |-> isPrivateIP(urlIn.host)]
  /\ UNCHANGED <<exceptUrl, urlIn>>

UrlInit ==
  /\ RendererInit /\ NewCache(1) /\ NewUnitWorld /\ NewRateLimit(MaxWindow, 1)
  /\ held = NotHeld /\ Groups
  /\ urlIn \in UrlInputs
  /\ urlOut = NoResult

UrlNext == CallValidateUrl \/ CallIsPrivateIP

\* the validator applied to every URL and option set of the model
SpecUrl == UrlInit /\ [][UrlNext]_vars

\* the hosts of the model that are a blocked hostname, and those that denote
\* an address in a loopback, private or link-local range (127/8, ::1; 10/8,
\* 172.16/12, 192.168/16, fc00::/7; 169.254/16, fe80::/10)
IsBlockedHostname(h) == h \in {<<"localhost">>, <<"0", ".", "0", ".", "0", ".", "0">>}
InInternalRange(h) ==
  h \in {<<"127", ".", "0", ".", "0", ".", "1">>, <<"[", ":", ":", "1", "]">>,
         <<"10", ".", "0", ".", "0", ".", "1">>,
         <<"172", ".", "16", ".", "0", ".", "1">>, <<"172", ".", "31", ".", "0", ".", "1">>,
         <<"192", ".", "168", ".", "1", ".", "1">>, <<"[", "fc00", ":", ":", "1", "]">>,
         <<"169", ".", "254", ".", "1", ".", "1">>, <<"[", "fe80", ":", ":", "1", "]">>}
\* the host is an entry of ds or a subdomain of one, compared without case
InDomains(h, ds) ==
  \E d \in ds : LET e == ToLowerCase(d)
                IN \/ h = e
                   \/ /\ Len(h) > Len(e)
                      /\ h[Len(h) - Len(e)] = "."
                      /\ \A i \in 1 .. Len(e) : h[Len(h) - Len(e) + i] = e[i]

\* C32: validateUrl returns valid:true only if all checks pass, in a fixed
\* precedence: a protocol outside allowedProtocols is rejected; a host that is
\* a blocked hostname or lies in a loopback, private or link-local range is
\* rejected even if allowedDomains lists it; a host equal to or a subdomain of
\* a blockedDomains entry is rejected even if it is allowed; with a non-empty
\* allowedDomains only hosts equal to or subdomains of an entry are accepted;
\* isPrivateIP says private for 172.16.x.x to 172.31.x.x and public for
\* 172.15.x.x and 172.32.x.x
C32_ValidOnlyIfAllChecksPass ==
  LET h == Hostname(urlIn.host)
  IN /\ (urlOut.op = "validateUrl" /\ urlOut.valid) =>
          /\ urlIn.form = "url"
          /\ urlIn.protocol \in urlIn.allowedProtocols
          /\ ~IsBlockedHostname(h)
          /\ ~InInternalRange(h)
          /\ ~InDomains(h, urlIn.blockedDomains)
          /\ urlIn.allowedDomains # {} => InDomains(h, urlIn.allowedDomains)
     /\ (urlOut.op = "validateUrl" /\ urlIn.form = "url") =>
          /\ urlIn.protocol \notin urlIn.allowedProtocols =>
               urlOut.error = "Protocol is not allowed"
          /\ (/\ urlIn.protocol \in urlIn.allowedProtocols
              /\ IsBlockedHostname(h) \/ InInternalRange(h)) =>
               urlOut.error = "Access to internal network addresses is not allowed"
     /\ (urlOut.op = "isPrivateIP" /\ StartsWith(urlIn.host, <<"172", ".">>)) =>
          (urlOut.private <=> urlIn.host[3] \in {"16", "31"})

(***************************************************************************)
(* Resets and the frame-scoped deduplication.                              *)
(***************************************************************************)
\* the step is a setVersion call, which runs resetWorld first
IsSetVersion == IsCall /\ \E v \in Versions : blockStateLoads'[v] = blockStateLoads[v] + 1

\* C33: a reset clears the frame-scoped dedup state: once setVersion has run
\* its resetWorld and made the coordinator active, no section key is held
\* back as already pending, so the first mark of any key after it posts a
\* dirty message, also for a key marked earlier in the same frame (no
\* clearPendingDirtySections in between)
C33_Step ==
  IsSetVersion => \A key \in AllKeys : ~Deduplicated(pendingDirtySections', key, TRUE)
C33_ResetClearsDedup == [][C33_Step]_vars

(***************************************************************************)
(* Unloading and reloading a column while a result is on its way.          *)
(***************************************************************************)
\* the column that is loaded, unloaded and loaded again, and its payloads:
\* section 0 present, every block air (0) or every block stone (1)
ReloadColumns == {<<0, 0>>}
ReloadPayloads(col) ==
  {[sections |-> {0}, blocks |-> [q \in ChunkPositions(col) |-> s]] : s \in {0, 1}}

\* the pipeline one setVersion(1) after construction: every worker has handled
\* reset, version and the block-state table, the texture is still loading;
\* the API calls are counted from here
LoadedInit ==
  /\ active = TRUE
  /\ workersActive = TRUE
  /\ workers = [i \in 1 .. NumWorkers |-> i - 1]
  /\ version = 1
  /\ sectionMeshs = <<>>
  /\ loadedChunks = {}
  /\ sectionsOutstanding = {}
  /\ pendingDirtySections = {}
  /\ listeners = <<>>
  /\ resolved = <<>>
  /\ nextWaiter = 1
  /\ scene = {}
  /\ disposedMeshes = {}
  /\ materialDisposedBy = {}
  /\ nextMeshId = 1
  /\ blockStateLoads = [v \in AllVersions |-> 0]
  /\ wWorld = [w \in Workers |-> NewWorld]
  /\ wBlocksStates = [w \in Workers |-> 1]
  /\ dirtySections = [w \in Workers |-> <<>>]
  /\ terminated = [w \in Workers |-> FALSE]
  /\ toWorker = [w \in Workers |-> <<>>]
  /\ fromWorker = [w \in Workers |-> <<>>]
  /\ opCount = 0
  /\ frameCount = 0
  /\ frameDirty = [k \in AllKeys |-> 0]
  /\ worldTruth = <<>>
  /\ ungenerated = [w \in Workers |-> {}]
  /\ seen = {}
  /\ everLoaded = {}
  /\ currentTexture = None
  /\ materialMap = None
  /\ disposedTextures = {}
  /\ textureLoads = 1
  /\ nextTextureId = 1
  /\ texturePending = [v \in AllVersions |-> IF v = 1 THEN 1 ELSE 0]
  /\ textureOf = <<>>
  /\ texLog = <<>>
  /\ frustumCullingEnabled = TRUE
  /\ hiddenMeshes = {}
  /\ visibleMeshCount = 0
  /\ totalMeshCount = 0

ReloadInit == LoadedInit /\ NewCache(1) /\ NewUnitWorld /\ MoreInit

\* addColumn for a column that is not loaded
LoadColumn(c, chunk) ==
  /\ columnKey(c[1], c[2]) \notin loadedChunks
  /\ AddColumn(c[1], c[2], chunk)

ReloadCalls ==
  \/ \E c \in ReloadColumns : \E chunk \in ReloadPayloads(c) : LoadColumn(c, chunk)
  \/ \E c \in ReloadColumns : RemoveColumn(c[1], c[2])
  \/ \E v \in Versions : SetVersion(v)

ReloadNext == ReloadCalls \/ ClearPendingDirtySections \/ SystemNext

\* the pipeline with a column loaded, unloaded and loaded again
SpecReload == ReloadInit /\ [][ReloadNext]_vars

\* the blocks of the loaded instance of the column of key, as the mesher
\* reads them
InstanceBlocks(key) ==
  [p \in PositionsInSection(key) |-> worldTruth[ColumnOfKey(key)][p]]

\* C34: a geometry result generated from a column instance that was unloaded
\* afterwards (removeColumn, resetWorld, setVersion) is never installed as a
\* live mesh, also when a column with the same key has been loaded again
\* before the result is delivered: every mesh in sectionMeshs was generated
\* from the currently loaded instance of its column (no block changes after
\* loading here, so from that instance's blocks)
C34_MeshOfLoadedInstance ==
  \A key \in DOMAIN sectionMeshs :
    /\ ColumnOfKey(key) \in DOMAIN worldTruth
    /\ sectionMeshs[key].geometry.blocks = InstanceBlocks(key)

(***************************************************************************)
(* The loads of several versions racing.                                   *)
(***************************************************************************)
VersionNext ==
  \/ \E v \in AllVersions : SetVersion(v)
  \/ TextureLoaded
  \/ \E v \in AllVersions : BlockStatesLoaded(v)
  \/ \E w \in Workers : WorkerReceive(w)

\* setVersion called several times, its loads completing in any order
SpecVersion == Init /\ [][VersionNext]_vars

\* every load has completed and every message has been handled
AllLoadsDone ==
  /\ version # None
  /\ textureLoads = 0
  /\ \A v \in AllVersions : blockStateLoads[v] = 0
  /\ \A w \in Workers : toWorker[w] = <<>>

\* C35: after several setVersion calls whose texture and block-state loads
\* complete in any order, once all loads have completed the texture on the
\* shared material is the one of the last requested version, every worker
\* holds the block-state table of the last requested version, and every
\* loaded texture is installed or disposed
C35_LastVersionWins ==
  AllLoadsDone =>
    /\ materialMap # None
    /\ textureOf[materialMap] = version
    /\ \A w \in Workers : wBlocksStates[w] = version
    /\ \A t \in DOMAIN textureOf : t = materialMap \/ t \in disposedTextures

(***************************************************************************)
(* Completions that arrive after dispose().                                *)
(***************************************************************************)
\* the step is the completion of a block-state load
IsBlockStatesLoaded == \E v \in AllVersions : blockStateLoads'[v] = blockStateLoads[v] - 1

\* C36: an asynchronous completion that arrives after WorldRenderer.dispose()
\* (a texture load or block-state load started by an earlier setVersion)
\* raises no error, installs no texture on the disposed material, leaves no
\* texture undisposed and posts no message to a terminated worker (taken
\* while no later setVersion has made the coordinator active again)
C36_Step ==
  /\ (~workersActive /\ ~active /\ IsTextureSwap) =>
       /\ \A i \in DOMAIN texLog' : texLog'[i].op # "throw"
       /\ materialMap' = materialMap
       /\ nextTextureId \in disposedTextures'
  /\ (~workersActive /\ ~active /\ IsBlockStatesLoaded) =>
       \A w \in Workers : terminated[w] => toWorker'[w] = toWorker[w]
C36_LateCompletionAfterDispose == [][C36_Step]_vars

(***************************************************************************)
(* Block descriptors kept by a caller of World.getBlock.                   *)
(***************************************************************************)
\* the column and the positions of the World whose descriptors are kept
HeldColumns == {<<0, 0>>}
HeldPositions == {<<0, 1, 0>>, <<15, 1, 15>>}

HeldNext ==
  \/ \E col \in HeldColumns : \E json \in UnitPayloads(col) : UnitAddColumn(col, json)
  \/ \E col \in HeldColumns : UnitRemoveColumn(col)
  \/ \E pos \in HeldPositions : \E s \in UnitStateIds : UnitSetBlockStateId(pos, s)
  \/ \E pos \in HeldPositions : \E keep \in BOOLEAN : UnitGetBlock(pos, keep)

\* a World whose callers keep the descriptors getBlock returns
SpecHeld == Init /\ [][HeldNext]_vars

\* C37: the descriptor returned by World.getBlock(p) keeps its position
\* afterwards: a later getBlock(q) for another position q holding the same
\* block state does not change the position of the descriptor returned
\* earlier for p
C37_DescriptorKeepsPosition == held.has => held.position = held.returned

(***************************************************************************)
(* What a worker needs to post a geometry.                                 *)
(***************************************************************************)
\* C38: a worker posts a geometry message for a section only in a tick in
\* which it holds a world replica and a block-state table, and the replica
\* holds the section's column and vertical sub-chunk; a reset message empties
\* the dirty queue and clears replica and table, which only a version and a
\* blockStates message set again, so no geometry is posted between a reset
\* and the arrival of both the next version and the next block-state table
C38_Step ==
  \A w \in Workers :
    /\ \A i \in DOMAIN Produced(w) :
         Produced(w)[i].type = "geometry" =>
           /\ toWorker' = toWorker
           /\ wWorld[w].exists
           /\ wBlocksStates[w] # None
           /\ HasSection(wWorld[w], Produced(w)[i].key)
    /\ (HandlesMessage(w) /\ Head(toWorker[w]).type = "reset") =>
         /\ dirtySections'[w] = <<>>
         /\ wWorld'[w] = NullWorld
         /\ wBlocksStates'[w] = None
    /\ (~wWorld[w].exists /\ wWorld'[w].exists) =>
         HandlesMessage(w) /\ Head(toWorker[w]).type = "version"
    /\ (wBlocksStates[w] = None /\ wBlocksStates'[w] # None) =>
         HandlesMessage(w) /\ Head(toWorker[w]).type = "blockStates"
C38_GeometryNeedsReplicaAndTable == [][C38_Step]_vars
\* after a second setVersion and an addColumn a worker has posted a geometry
C38_Witness ==
  /\ textureLoads = 2
  /\ loadedChunks # {}
  /\ \E w \in Workers : \E i \in DOMAIN fromWorker[w] : fromWorker[w][i].type = "geometry"

(***************************************************************************)
(* The coordinator after dispose().                                        *)
(***************************************************************************)
\* C39: after WorldRenderer.dispose() no later call (addColumn, removeColumn,
\* setBlockStateId, setSectionDirty, resetWorld, dispose) and no delivery of a
\* worker message posts a message to a worker or installs a mesh, and
\* sectionMeshs and sectionsOutstanding stay empty; a dispose() of a coordinator
\* that is as dispose() left it changes no field of the coordinator, of the
\* workers or of the channels; and sectionsOutstanding is empty whenever the
\* coordinator is not active
C39_Step ==
  /\ ~workersActive =>
       /\ toWorker' = toWorker
       /\ nextMeshId' = nextMeshId
       /\ scene' = {}
       /\ sectionMeshs' = EmptyMap
       /\ sectionsOutstanding' = {}
  /\ (~workersActive /\ ~active /\ loadedChunks = {} /\ Dispose) =>
       UNCHANGED <<coordVars, waitVars, meshVars, blockStateLoads, workerVars,
                   chanVars, texVars>>
C39_OutstandingOnlyWhileActive == ~active => sectionsOutstanding = {}
C39_NothingAfterDispose == [](C39_OutstandingOnlyWhileActive) /\ [][C39_Step]_vars
\* after a setVersion and a dispose() a column was added
C39_Witness ==
  /\ ~workersActive
  /\ ~active
  /\ version # None
  /\ loadedChunks # {}

(***************************************************************************)
(* dispose3 and clearScene on object trees.                                *)
(***************************************************************************)
\* THREE.Object3D.remove(child) of object p: the child leaves p.children and
\* its parent becomes null; nothing happens when it is not a child of p
Remove(objs, p, child) ==
  IF child \in SeqToSet(objs[p].children)
  THEN [objs EXCEPT ![p].children = RemoveFromSeq(@, child), ![child].parent = None]
  ELSE objs

\* while (object.children.length > 0)
HasChildrenMutant(o) == FALSE
HasChildren(o) == Len(o.children) > 0

\* disposeMaterial(material): dispose() and clear the map, then dispose() the
\* material; r = [calls, textured]
DisposeMaterial(r, m) ==
  [calls |-> [r.calls EXCEPT
                !.textures = IF m \in r.textured THEN @ \cup {m} ELSE @,
                !.materials = @ \cup {m}],
   textured |-> r.textured \ {m}]

\* the material branch of dispose3 on the materials ms of one object
RECURSIVE DisposeMaterials(_, _, _)
DisposeMaterials(r, ms, disposeTextures) ==
  IF ms = <<>> THEN r
  ELSE DisposeMaterials(
         IF disposeTextures THEN DisposeMaterial(r, Head(ms))
         ELSE [r EXCEPT !.calls.materials = @ \cup {Head(ms)}],
         Tail(ms), disposeTextures)

\* dispose3(object, options) after its loop over the children: geometry,
\* material(s), the object's own dispose method, and the parent
Dispose3Rest(n, options) ==
  LET o == objects[n]
      g == IF o.geometry # None
           THEN [disposeCalls EXCEPT !.geometries = @ \cup {o.geometry}]
           ELSE disposeCalls
      r == DisposeMaterials([calls |-> g, textured |-> texturedMaterials],
                            o.material.ids, options.disposeTextures)
      cleared == [objects EXCEPT ![n].geometry = None, ![n].material = NoMaterial]
  IN /\ disposeCalls' = IF o.dispose
                        THEN [r.calls EXCEPT !.objects = @ \cup {n}]
                        ELSE r.calls
     /\ texturedMaterials' = r.textured
     /\ objects' = IF o.parent # None THEN Remove(cleared, o.parent, n) ELSE cleared

\* dispose3(obj, options) is called: if (!object) return
CallDispose3(obj, options) ==
  /\ d3Call.op = "none"
  /\ d3Call' = [d3Call EXCEPT !.op = "dispose3", !.obj = obj, !.options = options]
  /\ callStack' = IF obj = None THEN <<>> ELSE <<[fn |-> "dispose3", obj |-> obj]>>
  /\ UNCHANGED <<exceptD3, objects, texturedMaterials, disposeCalls>>

\* clearScene(scene) is called: if (!scene) return
CallClearScene(sc) ==
  /\ d3Call.op = "none"
  /\ d3Call' = [d3Call EXCEPT !.op = "clearScene", !.obj = sc]
  /\ callStack' = IF sc = None THEN <<>> ELSE <<[fn |-> "clearScene", obj |-> sc]>>
  /\ UNCHANGED <<exceptD3, objects, texturedMaterials, disposeCalls>>

\* the innermost activation runs up to its next call or to its return
D3Step ==
  /\ callStack # <<>>
  /\ LET top == callStack[Len(callStack)]
         o == objects[top.obj]
         child == Head(o.children)
     IN IF top.fn = "clearScene"
        THEN IF HasChildren(o)
             THEN /\ objects' = Remove(objects, top.obj, child)
                  /\ callStack' = Append(callStack, [fn |-> "dispose3", obj |-> child])
                  /\ UNCHANGED <<texturedMaterials, disposeCalls>>
             ELSE /\ callStack' = SubSeq(callStack, 1, Len(callStack) - 1)
                  /\ UNCHANGED <<objects, texturedMaterials, disposeCalls>>
        ELSE IF d3Call.options.recursive /\ HasChildren(o)
             THEN /\ objects' = Remove(objects, top.obj, child)
                  /\ callStack' = Append(callStack, [fn |-> "dispose3", obj |-> child])
                  /\ UNCHANGED <<texturedMaterials, disposeCalls>>
             ELSE /\ Dispose3Rest(top.obj, d3Call.options)
                  /\ callStack' = SubSeq(callStack, 1, Len(callStack) - 1)
  /\ UNCHANGED <<exceptD3, d3Call>>

D3Init ==
  /\ RendererInit /\ NewCache(1) /\ NewUnitWorld /\ NewRateLimit(MaxWindow, 1)
  /\ NoUrlCall /\ held = NotHeld
  /\ \E f \in ParentMaps : \E k \in [Objects -> ObjectKinds] : NewTree(f, k)

D3Next ==
  \/ \E obj \in Objects \cup {None} : \E options \in D3Options : CallDispose3(obj, options)
  \/ \E sc \in Objects \cup {None} : CallClearScene(sc)
  \/ D3Step

\* an activation that can run does run
SpecDispose3 == D3Init /\ [][D3Next]_vars /\ WF_vars(D3Step)

\* object n is obj or below obj in the tree objs
RECURSIVE IsUnder(_, _, _)
IsUnder(objs, n, obj) ==
  \/ n = obj
  \/ objs[n].parent # None /\ IsUnder(objs, objs[n].parent, obj)

\* the call made has returned
Returned(op) == d3Call.op = op /\ d3Call.obj # None /\ callStack = <<>>

\* C40: dispose3(obj) with default options terminates on every finite object
\* tree; afterwards every object of the tree has no children, no geometry and
\* no material, dispose() was called on the geometry and on every material
\* each of them had, and obj is detached from its parent; clearScene(scene)
\* terminates, leaves the scene without children and calls dispose() neither
\* on the scene nor on its geometry or materials
C40_AfterDispose3 ==
  (Returned("dispose3") /\ d3Call.options = DefaultOptions) =>
    /\ \A n \in Objects :
         IsUnder(d3Call.before, n, d3Call.obj) =>
           /\ objects[n].children = <<>>
           /\ objects[n].geometry = None
           /\ objects[n].material = NoMaterial
           /\ d3Call.before[n].geometry # None =>
                d3Call.before[n].geometry \in disposeCalls.geometries
           /\ SeqToSet(d3Call.before[n].material.ids) \subseteq disposeCalls.materials
    /\ objects[d3Call.obj].parent = None
    /\ \A p \in Objects : d3Call.obj \notin SeqToSet(objects[p].children)
C40_AfterClearScene ==
  Returned("clearScene") =>
    /\ objects[d3Call.obj].children = <<>>
    /\ objects[d3Call.obj].geometry = d3Call.before[d3Call.obj].geometry
    /\ objects[d3Call.obj].material = d3Call.before[d3Call.obj].material
    /\ objects[d3Call.obj].parent = d3Call.before[d3Call.obj].parent
    /\ d3Call.obj \notin disposeCalls.objects
    /\ d3Call.before[d3Call.obj].geometry \notin disposeCalls.geometries
    /\ SeqToSet(d3Call.before[d3Call.obj].material.ids) \cap disposeCalls.materials = {}
C40_Dispose3Terminates ==
  /\ [](C40_AfterDispose3 /\ C40_AfterClearScene)
  /\ (d3Call.op # "none") ~> (callStack = <<>>)
\* dispose3 with default options has returned from an object that had a
\* parent, geometry, a material and a child with geometry
C40_Witness ==
  /\ Returned("dispose3")
  /\ d3Call.options = DefaultOptions
  /\ d3Call.before[d3Call.obj].parent # None
  /\ d3Call.before[d3Call.obj].geometry # None
  /\ d3Call.before[d3Call.obj].material # NoMaterial
  /\ \E c \in SeqToSet(d3Call.before[d3Call.obj].children) :
       d3Call.before[c].geometry # None

====
